---- MODULE Spec2Model ----
(***************************************************************************)
(* Model of the CNC pendant UI (src/src/CNC_Pendant_UI.cpp): the screen    *)
(* navigation state machine, the per-screen sprite cache, the debounced    *)
(* physical buttons, the rotary encoder and the touch dispatcher, driven   *)
(* by the polling loop of src/src/ardmain.cpp.                             *)
(*                                                                         *)
(* One pass of loop() is modelled as a chain of steps, one per source of   *)
(* input, in the order of the code: fnc_poll (time passes), button 0, 1,   *)
(* 2, jog encoder, rotation encoder, periodic sprite refresh, touch.       *)
(*                                                                         *)
(* Time.  Every static timestamp t of the code (lastDebounceTime[i],       *)
(* lastJogTime, lastRotationTime, lastSpriteUpdate, lastTouchTime) is      *)
(* only ever read as millis() - t > T.  The model keeps, for each of them, *)
(* the elapsed time millis() - t, saturated just above its threshold T:    *)
(* "t = millis()" sets it to 0 and the passing of d ms adds d to it.       *)
(*                                                                         *)
(* Observation.  `events` lists, in order, what the last step did to the   *)
(* outside: lines printed to the outbound channel (dbg_printf), display    *)
(* operations, sprite allocations and pushes, blocking delays.             *)
(***************************************************************************)
EXTENDS Integers, Sequences, FiniteSets, TLC

(***************************************************************************)
(* Screens, sprites, pin levels                                            *)
(***************************************************************************)
PSCREEN_MAIN_MENU == "MAIN_MENU"
PSCREEN_STATUS == "STATUS"
PSCREEN_JOG_HOMING == "JOG_HOMING"
PSCREEN_PROBING_WORK == "PROBING_WORK"
PSCREEN_PROBING == "PROBING"
PSCREEN_FEEDS_SPEEDS == "FEEDS_SPEEDS"
PSCREEN_SPINDLE_CONTROL == "SPINDLE_CONTROL"
PSCREEN_MACROS == "MACROS"
PSCREEN_SD_CARD == "SD_CARD"
PSCREEN_FLUIDNC == "FLUIDNC"

PendantScreen ==
    { PSCREEN_MAIN_MENU, PSCREEN_STATUS, PSCREEN_JOG_HOMING,
      PSCREEN_PROBING_WORK, PSCREEN_PROBING, PSCREEN_FEEDS_SPEEDS,
      PSCREEN_SPINDLE_CONTROL, PSCREEN_MACROS, PSCREEN_SD_CARD,
      PSCREEN_FLUIDNC }

Sprites ==
    { "spriteAxisDisplay", "spriteValueDisplay", "spriteStatusBar",
      "spriteFileDisplay" }

\* A sprite without a buffer; otherwise a sprite holds the screen whose
\* initSpritesForScreen case created (and sized) its buffer.
NoBuffer == "none"

HIGH == "HIGH"
LOW == "LOW"

(***************************************************************************)
(* Program constants                                                       *)
(***************************************************************************)
LowHeapThreshold == 50000
debounceDelay == 50
JogDebounce == 50
RotationDebounce == 300
SpriteUpdateInterval == 100
TouchDebounce == 200
AnimationDelay == 150
fileCount == 3
VisibleFiles == 5
RotationNormal == 2
RotationUpsideDown == 0

axisNames == <<"X", "Y", "Z", "A">>
\* jog increments {0.1, 1.0, 10.0, 100.0}, in tenths of a millimetre
increments == <<1, 10, 100, 1000>>
percentages == <<50, 75, 100, 125, 150>>
presets == <<6000, 12000, 24000>>
coords == <<"G54", "G55", "G56", "G57">>
files == <<"project1.gcode", "test_cut.nc", "enclosure.gcode">>
probeTypes == <<"Z Surface", "Tool Height">>

(***************************************************************************)
(* Bounds of the model: the time that may pass between two passes of the   *)
(* loop (besides none at all).                                             *)
(***************************************************************************)
ShortStep == 25
LongStep == 301

(***************************************************************************)
(* State                                                                   *)
(***************************************************************************)
VARIABLES
    pc,                     \* the step of setup()/loop() to run next
    currentPendantScreen,
    previousPendantScreen,
    spritesInitialized,
    spritesAllocatedFor,
    sprites,                \* sprite -> NoBuffer or the screen it was created for
    pendantMachine,
    pendantJog,
    pendantSdCard,
    pendantSpindle,
    pendantFeeds,
    pendantProbing,
    pendantProbe,
    nvs,                    \* Preferences "pendant"/"rotation": "unset" or the stored value
    sinceDebounce,          \* millis() - lastDebounceTime[i]
    lastButtonState,
    buttonState,
    buttonHandled,
    lastJogEncoderCLK,
    sinceJog,               \* millis() - lastJogTime
    lastEncoderCLK,
    sinceRotation,          \* millis() - lastRotationTime
    lastScreen,
    sinceSpriteUpdate,      \* millis() - lastSpriteUpdate
    sinceTouch,             \* millis() - lastTouchTime
    encoderCLK,             \* the level of the encoder's clock line
    events,                 \* what the last step did to the outside, in order
    observe,                \* which history the run records (fixed by Init)
    scenario,               \* history: progress of the touch scenario
    press,                  \* history: the raw levels of each button's line
    lastPress,              \* history: each button's last finished depression
    pressLog,               \* history: the last delivered button presses
    fallScreen,             \* history: the screen the clock line last fell on
    hold                    \* history: the touch that lasts since its first sample

uiVars ==
    << currentPendantScreen, previousPendantScreen, spritesInitialized,
       spritesAllocatedFor, sprites, pendantMachine, pendantJog,
       pendantSdCard, pendantSpindle, pendantFeeds, pendantProbing,
       pendantProbe >>

buttonVars == << sinceDebounce, lastButtonState, buttonState, buttonHandled >>

encoderVars ==
    << lastJogEncoderCLK, sinceJog, lastEncoderCLK, sinceRotation, lastScreen >>

historyVars ==
    << observe, scenario, press, lastPress, pressLog, fallScreen, hold >>

vars ==
    << pc, uiVars, nvs, buttonVars, encoderVars, sinceSpriteUpdate,
       sinceTouch, encoderCLK, events, historyVars >>

(***************************************************************************)
(* The globals the drawing and touch code works on, as one record g that   *)
(* the operators below pass along; g.events collects what they do and      *)
(* g.delayed the milliseconds they block.                                  *)
(***************************************************************************)
Globals ==
    [ currentPendantScreen |-> currentPendantScreen,
      previousPendantScreen |-> previousPendantScreen,
      spritesInitialized |-> spritesInitialized,
      spritesAllocatedFor |-> spritesAllocatedFor,
      sprites |-> sprites,
      pendantMachine |-> pendantMachine,
      pendantJog |-> pendantJog,
      pendantSdCard |-> pendantSdCard,
      pendantSpindle |-> pendantSpindle,
      pendantFeeds |-> pendantFeeds,
      pendantProbing |-> pendantProbing,
      pendantProbe |-> pendantProbe,
      events |-> << >>,
      delayed |-> 0 ]

Emit(g, e) == [g EXCEPT !.events = Append(@, e)]

\* dbg_printf of a line of the motion controller's vocabulary
Command(g, line) == Emit(g, [ev |-> "cmd", line |-> line])

\* dbg_printf of a diagnostic
Debug(g, line) == Emit(g, [ev |-> "dbg", line |-> line])

\* display.* calls that paint a static part or a button group directly
Paint(g, what) == Emit(g, [ev |-> "paint", what |-> what])

delay_ms(g, ms) ==
    [Emit(g, [ev |-> "delay", ms |-> ms]) EXCEPT !.delayed = @ + ms]

(***************************************************************************)
(* Sprite management.  env is what the hardware answers during the call:   *)
(* env.freeHeap is ESP.getFreeHeap(), env.fail the sprites whose           *)
(* createSprite finds no memory.                                           *)
(***************************************************************************)
deleteSprite(g, sprite) ==
    [Emit(g, [ev |-> "deleteSprite", sprite |-> sprite,
              buffer |-> g.sprites[sprite]])
        EXCEPT !.sprites[sprite] = NoBuffer]

createSprite(g, sprite, screen, env) ==
    LET buffer == IF sprite \in env.fail THEN NoBuffer ELSE screen
    IN  [Emit(g, [ev |-> "createSprite", sprite |-> sprite,
                  screen |-> screen, buffer |-> buffer,
                  others |-> {g.sprites[s] : s \in Sprites \ {sprite}}])
            EXCEPT !.sprites[sprite] = buffer]

\* Status screen: createSprite, then deleteSprite when getBuffer() is null
createSpriteChecked(g, sprite, screen, env) ==
    LET g1 == createSprite(g, sprite, screen, env)
    IN  IF g1.sprites[sprite] # NoBuffer
        THEN g1
        ELSE deleteSprite(Debug(g1, "Warning: Failed to allocate"), sprite)

\* freeExistingSprites that leaves the file display's buffer allocated
freeExistingSprites_keepsFileDisplay(g) ==
    IF g.spritesInitialized
    THEN [deleteSprite(deleteSprite(deleteSprite(g,
              "spriteAxisDisplay"), "spriteValueDisplay"), "spriteStatusBar")
            EXCEPT !.spritesInitialized = FALSE]
    ELSE g

freeExistingSprites(g) ==
    IF g.spritesInitialized
    THEN [deleteSprite(deleteSprite(deleteSprite(deleteSprite(g,
              "spriteAxisDisplay"), "spriteValueDisplay"),
              "spriteStatusBar"), "spriteFileDisplay")
            EXCEPT !.spritesInitialized = FALSE]
    ELSE g

allocateSpritesFor(g, screen, env) ==
    CASE screen = PSCREEN_JOG_HOMING ->
           [createSprite(createSprite(g, "spriteAxisDisplay", screen, env),
                         "spriteValueDisplay", screen, env)
               EXCEPT !.spritesInitialized = TRUE]
      [] screen = PSCREEN_PROBING_WORK ->
           [createSprite(createSprite(g, "spriteAxisDisplay", screen, env),
                         "spriteValueDisplay", screen, env)
               EXCEPT !.spritesInitialized = TRUE]
      [] screen = PSCREEN_MAIN_MENU ->
           [createSprite(g, "spriteStatusBar", screen, env)
               EXCEPT !.spritesInitialized = TRUE]
      [] screen = PSCREEN_STATUS ->
           [createSpriteChecked(createSpriteChecked(createSpriteChecked(
                createSpriteChecked(g, "spriteStatusBar", screen, env),
                "spriteAxisDisplay", screen, env),
                "spriteValueDisplay", screen, env),
                "spriteFileDisplay", screen, env)
               EXCEPT !.spritesInitialized = TRUE]
      [] screen = PSCREEN_SPINDLE_CONTROL ->
           [createSprite(g, "spriteValueDisplay", screen, env)
               EXCEPT !.spritesInitialized = TRUE]
      [] screen = PSCREEN_FEEDS_SPEEDS ->
           [createSprite(createSprite(createSprite(g,
                "spriteStatusBar", screen, env),
                "spriteAxisDisplay", screen, env),
                "spriteValueDisplay", screen, env)
               EXCEPT !.spritesInitialized = TRUE]
      [] screen = PSCREEN_PROBING ->
           [createSprite(createSprite(g, "spriteAxisDisplay", screen, env),
                         "spriteValueDisplay", screen, env)
               EXCEPT !.spritesInitialized = TRUE]
      [] OTHER -> g

\* initSpritesForScreen that checks the heap before it frees anything
initSpritesForScreen_checksFirst(g, screen, env) ==
    LET g1 == Emit(g, [ev |-> "initSprites", screen |-> screen,
                       freeHeap |-> env.freeHeap])
    IN  IF env.freeHeap < LowHeapThreshold
        THEN Debug(g1, "Warning: Low heap memory, skipping sprite allocation")
        ELSE [allocateSpritesFor(freeExistingSprites(g1), screen, env)
                EXCEPT !.spritesAllocatedFor = screen]

initSpritesForScreen(g, screen, env) ==
    LET g1 == freeExistingSprites(
                  Emit(g, [ev |-> "initSprites", screen |-> screen,
                           freeHeap |-> env.freeHeap]))
    IN  IF env.freeHeap < LowHeapThreshold
        THEN Debug(g1, "Warning: Low heap memory, skipping sprite allocation")
        ELSE [allocateSpritesFor(g1, screen, env)
                EXCEPT !.spritesAllocatedFor = screen]

(***************************************************************************)
(* Cached-region update routines.  Each returns at once unless the sprites *)
(* are initialized and its own screen is current; otherwise it renders     *)
(* `content` into its sprite and pushes the sprite to the display.         *)
(***************************************************************************)
Skip(g, routine) ==
    Emit(g, [ev |-> "update", routine |-> routine, pushed |-> FALSE,
             screen |-> g.currentPendantScreen,
             initialized |-> g.spritesInitialized])

\* fillSprite ... print ... pushSprite: nothing reaches the display when the
\* sprite holds no buffer
Push(g, routine, sprite, content) ==
    Emit(g, [ev |-> "update", routine |-> routine, pushed |-> TRUE,
             sprite |-> sprite, buffer |-> g.sprites[sprite],
             screen |-> g.currentPendantScreen,
             initialized |-> g.spritesInitialized,
             allocatedFor |-> g.spritesAllocatedFor,
             content |-> content])

updateJogAxisDisplay(g) ==
    IF ~g.spritesInitialized \/ g.currentPendantScreen # PSCREEN_JOG_HOMING
    THEN Skip(g, "updateJogAxisDisplay")
    ELSE Push(g, "updateJogAxisDisplay", "spriteAxisDisplay",
              << axisNames[g.pendantJog.selectedAxis + 1] >>)

updateWorkMachinePos(g) ==
    IF ~g.spritesInitialized \/ g.currentPendantScreen # PSCREEN_PROBING_WORK
    THEN Skip(g, "updateWorkMachinePos")
    ELSE Push(g, "updateWorkMachinePos", "spriteAxisDisplay", << >>)

updateWorkAreaPos(g) ==
    IF ~g.spritesInitialized \/ g.currentPendantScreen # PSCREEN_PROBING_WORK
    THEN Skip(g, "updateWorkAreaPos")
    ELSE Push(g, "updateWorkAreaPos", "spriteValueDisplay", << >>)

updateMainMenuDisplay(g) ==
    IF ~g.spritesInitialized \/ g.currentPendantScreen # PSCREEN_MAIN_MENU
    THEN Skip(g, "updateMainMenuDisplay")
    ELSE Push(g, "updateMainMenuDisplay", "spriteStatusBar",
              << g.pendantMachine.status >>)

updateFeedsSpeedsTopDisplay(g) ==
    IF ~g.spritesInitialized \/ g.currentPendantScreen # PSCREEN_FEEDS_SPEEDS
    THEN Skip(g, "updateFeedsSpeedsTopDisplay")
    ELSE Push(g, "updateFeedsSpeedsTopDisplay", "spriteStatusBar",
              << g.pendantMachine.feedRate, g.pendantMachine.spindleRPM >>)

updateFeedOverrideDisplay(g) ==
    IF ~g.spritesInitialized \/ g.currentPendantScreen # PSCREEN_FEEDS_SPEEDS
    THEN Skip(g, "updateFeedOverrideDisplay")
    ELSE Push(g, "updateFeedOverrideDisplay", "spriteAxisDisplay",
              << g.pendantMachine.feedOverride >>)

updateSpindleOverrideDisplay(g) ==
    IF ~g.spritesInitialized \/ g.currentPendantScreen # PSCREEN_FEEDS_SPEEDS
    THEN Skip(g, "updateSpindleOverrideDisplay")
    ELSE Push(g, "updateSpindleOverrideDisplay", "spriteValueDisplay",
              << g.pendantMachine.spindleOverride >>)

updateSpindleRPMDisplay(g) ==
    IF ~g.spritesInitialized \/ g.currentPendantScreen # PSCREEN_SPINDLE_CONTROL
    THEN Skip(g, "updateSpindleRPMDisplay")
    ELSE Push(g, "updateSpindleRPMDisplay", "spriteValueDisplay",
              << g.pendantMachine.spindleRPM, g.pendantMachine.spindleDir >>)

updateProbePositionDisplay(g) ==
    IF ~g.spritesInitialized \/ g.currentPendantScreen # PSCREEN_PROBING
    THEN Skip(g, "updateProbePositionDisplay")
    ELSE Push(g, "updateProbePositionDisplay", "spriteAxisDisplay", << >>)

updateProbeSettingsDisplay(g) ==
    IF ~g.spritesInitialized \/ g.currentPendantScreen # PSCREEN_PROBING
    THEN Skip(g, "updateProbeSettingsDisplay")
    ELSE Push(g, "updateProbeSettingsDisplay", "spriteValueDisplay", << >>)

updateStatusCurrentFile(g) ==
    IF ~g.spritesInitialized \/ g.currentPendantScreen # PSCREEN_STATUS
    THEN Skip(g, "updateStatusCurrentFile")
    ELSE Push(g, "updateStatusCurrentFile", "spriteFileDisplay",
              << g.pendantMachine.currentFile >>)

updateStatusMachineStatus(g) ==
    IF ~g.spritesInitialized \/ g.currentPendantScreen # PSCREEN_STATUS
    THEN Skip(g, "updateStatusMachineStatus")
    ELSE Push(g, "updateStatusMachineStatus", "spriteStatusBar",
              << g.pendantMachine.status >>)

updateStatusAxisPositions(g) ==
    IF ~g.spritesInitialized \/ g.currentPendantScreen # PSCREEN_STATUS
    THEN Skip(g, "updateStatusAxisPositions")
    ELSE Push(g, "updateStatusAxisPositions", "spriteAxisDisplay", << >>)

updateStatusFeedSpindle(g) ==
    IF ~g.spritesInitialized \/ g.currentPendantScreen # PSCREEN_STATUS
    THEN Skip(g, "updateStatusFeedSpindle")
    ELSE Push(g, "updateStatusFeedSpindle", "spriteValueDisplay",
              << g.pendantMachine.feedRate, g.pendantMachine.spindleDir,
                 g.pendantMachine.spindleRPM >>)

(***************************************************************************)
(* Partial redraws of a button group (and of the readout that shows it)    *)
(***************************************************************************)
\* redrawJogAxisButtons that forgets the axis readout
redrawJogAxisButtons_buttonsOnly(g) ==
    IF g.currentPendantScreen # PSCREEN_JOG_HOMING THEN g
    ELSE Paint(g, "jogAxisButtons")

redrawJogAxisButtons(g) ==
    IF g.currentPendantScreen # PSCREEN_JOG_HOMING THEN g
    ELSE updateJogAxisDisplay(Paint(g, "jogAxisButtons"))

\* redrawJogIncrementButtons that clears the whole display first
redrawJogIncrementButtons_fillsScreen(g) ==
    IF g.currentPendantScreen # PSCREEN_JOG_HOMING THEN g
    ELSE Paint(Emit(g, [ev |-> "fullRepaint", screen |-> PSCREEN_JOG_HOMING]),
               "jogIncrementButtons")

redrawJogIncrementButtons(g) ==
    IF g.currentPendantScreen # PSCREEN_JOG_HOMING THEN g
    ELSE Paint(g, "jogIncrementButtons")

redrawWorkCoordButtons(g) ==
    IF g.currentPendantScreen # PSCREEN_PROBING_WORK THEN g
    ELSE Paint(g, "workCoordButtons")

redrawFeedOverrideButtons(g) ==
    IF g.currentPendantScreen # PSCREEN_FEEDS_SPEEDS THEN g
    ELSE updateFeedOverrideDisplay(Paint(g, "feedOverrideButtons"))

redrawSpindleOverrideButtons(g) ==
    IF g.currentPendantScreen # PSCREEN_FEEDS_SPEEDS THEN g
    ELSE updateSpindleOverrideDisplay(Paint(g, "spindleOverrideButtons"))

redrawSpindleDirectionButtons(g) ==
    IF g.currentPendantScreen # PSCREEN_SPINDLE_CONTROL THEN g
    ELSE updateSpindleRPMDisplay(Paint(g, "spindleDirectionButtons"))

redrawSpindlePresetButtons(g) ==
    IF g.currentPendantScreen # PSCREEN_SPINDLE_CONTROL THEN g
    ELSE updateSpindleRPMDisplay(Paint(g, "spindlePresetButtons"))

(***************************************************************************)
(* Full repaints.  Each clears the display, (re)binds the sprites when     *)
(* they are not initialized for its screen, and calls its update routines. *)
(***************************************************************************)
fillScreen(g, screen) == Emit(g, [ev |-> "fullRepaint", screen |-> screen])

\* drawMainMenu that initializes the sprites on every call
drawMainMenu_rebinds(g, env) ==
    LET g1 == fillScreen(g, PSCREEN_MAIN_MENU)
        g2 == initSpritesForScreen(g1, PSCREEN_MAIN_MENU, env)
    IN  Paint(updateMainMenuDisplay(Paint(g2, "statusBackground")),
              "menuButtons")

drawMainMenu(g, env) ==
    LET g1 == fillScreen(g, PSCREEN_MAIN_MENU)
        g2 == IF ~g1.spritesInitialized
                 \/ g1.spritesAllocatedFor # PSCREEN_MAIN_MENU
              THEN initSpritesForScreen(g1, PSCREEN_MAIN_MENU, env)
              ELSE g1
    IN  Paint(updateMainMenuDisplay(Paint(g2, "statusBackground")),
              "menuButtons")

\* drawStatusScreen that leaves the current file to the periodic refresh
drawStatusScreen_withoutFile(g, env) ==
    LET g1 == fillScreen(g, PSCREEN_STATUS)
        g2 == IF ~g1.spritesInitialized
                 \/ g1.spritesAllocatedFor # PSCREEN_STATUS
              THEN initSpritesForScreen(g1, PSCREEN_STATUS, env)
              ELSE g1
    IN  Paint(updateStatusFeedSpindle(updateStatusAxisPositions(
                  updateStatusMachineStatus(g2))),
              "statusButtons")

drawStatusScreen(g, env) ==
    LET g1 == fillScreen(g, PSCREEN_STATUS)
        g2 == IF ~g1.spritesInitialized
                 \/ g1.spritesAllocatedFor # PSCREEN_STATUS
              THEN initSpritesForScreen(g1, PSCREEN_STATUS, env)
              ELSE g1
    IN  Paint(updateStatusFeedSpindle(updateStatusAxisPositions(
                  updateStatusCurrentFile(updateStatusMachineStatus(g2)))),
              "statusButtons")

\* drawJogHomingScreen that binds the sprites only when none are initialized
drawJogHomingScreen_bindsOnce(g, env) ==
    LET g1 == fillScreen(g, PSCREEN_JOG_HOMING)
        g2 == IF ~g1.spritesInitialized
              THEN initSpritesForScreen(g1, PSCREEN_JOG_HOMING, env)
              ELSE g1
    IN  Paint(updateJogAxisDisplay(Paint(g2, "axisDisplayBackground")),
              "jogButtons")

drawJogHomingScreen(g, env) ==
    LET g1 == fillScreen(g, PSCREEN_JOG_HOMING)
        g2 == IF ~g1.spritesInitialized
                 \/ g1.spritesAllocatedFor # PSCREEN_JOG_HOMING
              THEN initSpritesForScreen(g1, PSCREEN_JOG_HOMING, env)
              ELSE g1
    IN  Paint(updateJogAxisDisplay(Paint(g2, "axisDisplayBackground")),
              "jogButtons")

drawProbingWorkScreen(g, env) ==
    LET g1 == fillScreen(g, PSCREEN_PROBING_WORK)
        g2 == IF ~g1.spritesInitialized
                 \/ g1.spritesAllocatedFor # PSCREEN_PROBING_WORK
              THEN initSpritesForScreen(g1, PSCREEN_PROBING_WORK, env)
              ELSE g1
    IN  Paint(updateWorkAreaPos(updateWorkMachinePos(
                  Paint(g2, "workCoordButtons"))),
              "workZeroButtons")

drawProbingScreen(g, env) ==
    LET g1 == fillScreen(g, PSCREEN_PROBING)
        g2 == IF ~g1.spritesInitialized
                 \/ g1.spritesAllocatedFor # PSCREEN_PROBING
              THEN initSpritesForScreen(g1, PSCREEN_PROBING, env)
              ELSE g1
    IN  Paint(updateProbeSettingsDisplay(Paint(
                  updateProbePositionDisplay(g2), "probeTypeButtons")),
              "probeButtons")

drawFeedsSpeedsScreen(g, env) ==
    LET g1 == fillScreen(g, PSCREEN_FEEDS_SPEEDS)
        g2 == IF ~g1.spritesInitialized
                 \/ g1.spritesAllocatedFor # PSCREEN_FEEDS_SPEEDS
              THEN initSpritesForScreen(g1, PSCREEN_FEEDS_SPEEDS, env)
              ELSE g1
        g3 == Paint(Paint(updateFeedsSpeedsTopDisplay(g2),
                          "feedOverrideButtons"), "feedReadoutBackground")
        g4 == Paint(Paint(updateFeedOverrideDisplay(g3),
                          "spindleOverrideButtons"), "spindleReadoutBackground")
    IN  Paint(updateSpindleOverrideDisplay(g4), "feedsButtons")

drawSpindleControlScreen(g, env) ==
    LET g1 == fillScreen(g, PSCREEN_SPINDLE_CONTROL)
        g2 == IF ~g1.spritesInitialized
                 \/ g1.spritesAllocatedFor # PSCREEN_SPINDLE_CONTROL
              THEN initSpritesForScreen(g1, PSCREEN_SPINDLE_CONTROL, env)
              ELSE g1
    IN  Paint(updateSpindleRPMDisplay(Paint(g2, "rpmBackground")),
              "spindleButtons")

drawMacrosScreen(g) == Paint(fillScreen(g, PSCREEN_MACROS), "macroButtons")

drawSDCardScreen(g) == Paint(fillScreen(g, PSCREEN_SD_CARD), "fileList")

drawFluidNCScreen(g) == Paint(fillScreen(g, PSCREEN_FLUIDNC), "connectionInfo")

drawCurrentPendantScreen(g, env) ==
    CASE g.currentPendantScreen = PSCREEN_MAIN_MENU -> drawMainMenu(g, env)
      [] g.currentPendantScreen = PSCREEN_STATUS -> drawStatusScreen(g, env)
      [] g.currentPendantScreen = PSCREEN_JOG_HOMING ->
           drawJogHomingScreen(g, env)
      [] g.currentPendantScreen = PSCREEN_PROBING_WORK ->
           drawProbingWorkScreen(g, env)
      [] g.currentPendantScreen = PSCREEN_PROBING -> drawProbingScreen(g, env)
      [] g.currentPendantScreen = PSCREEN_FEEDS_SPEEDS ->
           drawFeedsSpeedsScreen(g, env)
      [] g.currentPendantScreen = PSCREEN_SPINDLE_CONTROL ->
           drawSpindleControlScreen(g, env)
      [] g.currentPendantScreen = PSCREEN_MACROS -> drawMacrosScreen(g)
      [] g.currentPendantScreen = PSCREEN_SD_CARD -> drawSDCardScreen(g)
      [] g.currentPendantScreen = PSCREEN_FLUIDNC -> drawFluidNCScreen(g)

(***************************************************************************)
(* Touch handling                                                          *)
(***************************************************************************)
isTouchInBounds(tx, ty, x, y, w, h) ==
    tx >= x /\ tx <= x + w /\ ty >= y /\ ty <= y + h

\* the first index of a for loop over 0..n-1 whose region holds the point
FirstHit(hits) == CHOOSE i \in hits : \A j \in hits : i <= j

GoTo(g, screen) == [g EXCEPT !.currentPendantScreen = screen]

\* invert the button, hold, restore
Animate(g, button) ==
    Paint(delay_ms(Paint(g, button), AnimationDelay), button)

handleMainMenuTouch(g, x, y) ==
    LET btnY == 115
        btnH == 47
        btnGap == 52
    IN  IF isTouchInBounds(x, y, 5, btnY, 112, btnH)
        THEN GoTo(g, PSCREEN_JOG_HOMING)
        ELSE IF isTouchInBounds(x, y, 123, btnY, 112, btnH)
        THEN GoTo(g, PSCREEN_PROBING_WORK)
        ELSE IF isTouchInBounds(x, y, 5, btnY + btnGap, 112, btnH)
        THEN GoTo(g, PSCREEN_FEEDS_SPEEDS)
        ELSE IF isTouchInBounds(x, y, 123, btnY + btnGap, 112, btnH)
        THEN GoTo(g, PSCREEN_SPINDLE_CONTROL)
        ELSE IF isTouchInBounds(x, y, 5, btnY + btnGap * 2, 112, btnH)
        THEN GoTo(g, PSCREEN_MACROS)
        ELSE IF isTouchInBounds(x, y, 123, btnY + btnGap * 2, 112, btnH)
        THEN GoTo(g, PSCREEN_SD_CARD)
        ELSE IF isTouchInBounds(x, y, 5, btnY + btnGap * 3, 112, btnH)
        THEN GoTo(g, PSCREEN_PROBING)
        ELSE IF isTouchInBounds(x, y, 123, btnY + btnGap * 3, 112, btnH)
        THEN GoTo(g, PSCREEN_STATUS)
        ELSE g

handleJogHomingTouch(g, x, y) ==
    LET axisHits == {i \in 0..3 : isTouchInBounds(x, y, 5 + i * 56, 115, 52, 38)}
        homeHits == {i \in 0..3 : isTouchInBounds(x, y, 5 + i * 56, 173, 52, 38)}
        incHits == {i \in 0..3 : isTouchInBounds(x, y, 5 + i * 56, 231, 52, 38)}
    IN  IF axisHits # {}
        THEN redrawJogAxisButtons(
                 [g EXCEPT !.pendantJog.selectedAxis = FirstHit(axisHits)])
        ELSE IF homeHits # {}
        THEN Command(Animate(g, "homeButton"),
                     << "$H", axisNames[FirstHit(homeHits) + 1] >>)
        ELSE IF incHits # {}
        THEN redrawJogIncrementButtons(
                 [g EXCEPT !.pendantJog.selectedIncrement = FirstHit(incHits),
                           !.pendantJog.increment =
                                increments[FirstHit(incHits) + 1]])
        ELSE IF isTouchInBounds(x, y, 5, 277, 112, 40)
        THEN GoTo(g, PSCREEN_MAIN_MENU)
        ELSE IF isTouchInBounds(x, y, 123, 277, 112, 40)
        THEN GoTo(g, PSCREEN_PROBING_WORK)
        ELSE g

handleSpindleControlTouch(g, x, y) ==
    LET g1 == IF isTouchInBounds(x, y, 5, 118, 112, 38)
              THEN redrawSpindleDirectionButtons(
                       [g EXCEPT !.pendantSpindle.directionFwd = TRUE,
                                 !.pendantMachine.spindleDir = "Fwd"])
              ELSE IF isTouchInBounds(x, y, 123, 118, 112, 38)
              THEN redrawSpindleDirectionButtons(
                       [g EXCEPT !.pendantSpindle.directionFwd = FALSE,
                                 !.pendantMachine.spindleDir = "Rev"])
              ELSE g
        presetHits == {i \in 0..2 : isTouchInBounds(x, y, 5 + i * 75, 178, 70, 37)}
        g2 == IF isTouchInBounds(x, y, 5, 230, 112, 40)
              THEN [Command(Animate(g1, "startButton"),
                            << "M3", g1.pendantMachine.spindleRPM >>)
                       EXCEPT !.pendantMachine.spindleRunning = TRUE]
              ELSE IF isTouchInBounds(x, y, 123, 230, 112, 40)
              THEN [Command(Animate(g1, "stopButton"), << "M5" >>)
                       EXCEPT !.pendantMachine.spindleRunning = FALSE]
              ELSE g1
    IN  IF presetHits # {}
        THEN redrawSpindlePresetButtons(
                 [g1 EXCEPT !.pendantSpindle.selectedPreset = FirstHit(presetHits),
                            !.pendantMachine.spindleRPM =
                                 presets[FirstHit(presetHits) + 1]])
        ELSE IF isTouchInBounds(x, y, 5, 280, 230, 37)
        THEN GoTo(g2, PSCREEN_MAIN_MENU)
        ELSE g2

handleFeedsSpeedsTouch(g, x, y) ==
    LET feedHits == {i \in 0..2 : isTouchInBounds(x, y, 5 + i * 78, 95, 72, 37)}
        spindleHits == {i \in 0..2 : isTouchInBounds(x, y, 5 + i * 78, 194, 72, 37)}
        SetFeed(i, percent) ==
            redrawFeedOverrideButtons(
                [g EXCEPT !.pendantFeeds.selectedFeedOverride = i,
                          !.pendantMachine.feedOverride = percent])
        SetSpindle(i, percent) ==
            redrawSpindleOverrideButtons(
                [g EXCEPT !.pendantFeeds.selectedSpindleOverride = i,
                          !.pendantMachine.spindleOverride = percent])
    IN  IF feedHits # {}
        THEN SetFeed(FirstHit(feedHits), percentages[FirstHit(feedHits) + 1])
        ELSE IF isTouchInBounds(x, y, 5, 137, 72, 37)
        THEN SetFeed(3, 125)
        ELSE IF isTouchInBounds(x, y, 161, 137, 72, 37)
        THEN SetFeed(4, 150)
        ELSE IF spindleHits # {}
        THEN SetSpindle(FirstHit(spindleHits),
                        percentages[FirstHit(spindleHits) + 1])
        ELSE IF isTouchInBounds(x, y, 5, 236, 72, 37)
        THEN SetSpindle(3, 125)
        ELSE IF isTouchInBounds(x, y, 161, 236, 72, 37)
        THEN SetSpindle(4, 150)
        ELSE IF isTouchInBounds(x, y, 5, 280, 230, 40)
        THEN GoTo(g, PSCREEN_MAIN_MENU)
        ELSE g

handleSDCardTouch_scrollFirst(g, x, y, env) ==
    LET rowHits == {i \in 0..(VisibleFiles - 1) :
                        isTouchInBounds(x, y, 5, 40 + i * 44, 230, 40)}
        displayIndex == FirstHit(rowHits) + g.pendantSdCard.scrollOffset
    IN  IF isTouchInBounds(x, y, 5, 240, 112, 38)
             /\ g.pendantSdCard.scrollOffset > 0
        THEN drawCurrentPendantScreen(
                 [delay_ms(Paint(g, "backButton"), AnimationDelay)
                     EXCEPT !.pendantSdCard.scrollOffset = @ - 1],
                 env)
        ELSE IF isTouchInBounds(x, y, 123, 240, 112, 38)
                  /\ g.pendantSdCard.scrollOffset + VisibleFiles
                        < g.pendantSdCard.fileCount
        THEN drawCurrentPendantScreen(
                 [delay_ms(Paint(g, "nextButton"), AnimationDelay)
                     EXCEPT !.pendantSdCard.scrollOffset = @ + 1],
                 env)
        ELSE IF rowHits # {}
        THEN IF displayIndex < g.pendantSdCard.fileCount
             THEN GoTo(Debug([g EXCEPT !.pendantMachine.currentFile =
                                           files[displayIndex + 1]],
                             << "Opening", files[displayIndex + 1] >>),
                       PSCREEN_STATUS)
             ELSE g
        ELSE IF isTouchInBounds(x, y, 5, 282, 230, 38)
        THEN GoTo(g, PSCREEN_MAIN_MENU)
        ELSE g

handleSDCardTouch(g, x, y, env) ==
    LET rowHits == {i \in 0..(VisibleFiles - 1) :
                        isTouchInBounds(x, y, 5, 40 + i * 44, 230, 40)}
        displayIndex == FirstHit(rowHits) + g.pendantSdCard.scrollOffset
        g1 == IF isTouchInBounds(x, y, 5, 240, 112, 38)
              THEN IF g.pendantSdCard.scrollOffset > 0
                   THEN drawCurrentPendantScreen(
                            [delay_ms(Paint(g, "backButton"), AnimationDelay)
                                EXCEPT !.pendantSdCard.scrollOffset = @ - 1],
                            env)
                   ELSE g
              ELSE IF isTouchInBounds(x, y, 123, 240, 112, 38)
              THEN IF g.pendantSdCard.scrollOffset + VisibleFiles
                          < g.pendantSdCard.fileCount
                   THEN drawCurrentPendantScreen(
                            [delay_ms(Paint(g, "nextButton"), AnimationDelay)
                                EXCEPT !.pendantSdCard.scrollOffset = @ + 1],
                            env)
                   ELSE g
              ELSE g
    IN  IF rowHits # {}
        THEN IF displayIndex < g.pendantSdCard.fileCount
             THEN GoTo(Debug([g EXCEPT !.pendantMachine.currentFile =
                                           files[displayIndex + 1]],
                             << "Opening", files[displayIndex + 1] >>),
                       PSCREEN_STATUS)
             ELSE g
        ELSE IF isTouchInBounds(x, y, 5, 282, 230, 38)
        THEN GoTo(g1, PSCREEN_MAIN_MENU)
        ELSE g1

\* handleProbingWorkTouch whose zero-all button zeroes the axes one by one
handleProbingWorkTouch_zeroPerAxis(g, x, y) ==
    LET coordHits == {i \in 0..3 : isTouchInBounds(x, y, 5 + i * 56, 55, 52, 38)}
        g1 == IF isTouchInBounds(x, y, 5, 230, 46, 38)
              THEN Command(Animate(g, "zeroX"), << "G10 L20 P1", "X0" >>)
              ELSE IF isTouchInBounds(x, y, 52, 230, 46, 38)
              THEN Command(Animate(g, "zeroY"), << "G10 L20 P1", "Y0" >>)
              ELSE IF isTouchInBounds(x, y, 99, 230, 46, 38)
              THEN Command(Animate(g, "zeroZ"), << "G10 L20 P1", "Z0" >>)
              ELSE IF isTouchInBounds(x, y, 146, 230, 46, 38)
              THEN Command(Animate(g, "zeroA"), << "G10 L20 P1", "A0" >>)
              ELSE IF isTouchInBounds(x, y, 193, 230, 46, 38)
              THEN Command(Command(Command(Command(Animate(g, "zeroAll"),
                           << "G10 L20 P1", "X0" >>),
                           << "G10 L20 P1", "Y0" >>),
                           << "G10 L20 P1", "Z0" >>),
                           << "G10 L20 P1", "A0" >>)
              ELSE g
    IN  IF coordHits # {}
        THEN redrawWorkCoordButtons(
                 [g EXCEPT !.pendantProbing.selectedCoordIndex = FirstHit(coordHits),
                           !.pendantProbing.selectedCoordSystem =
                                coords[FirstHit(coordHits) + 1]])
        ELSE IF isTouchInBounds(x, y, 5, 277, 112, 40)
        THEN GoTo(g1, PSCREEN_MAIN_MENU)
        ELSE IF isTouchInBounds(x, y, 123, 277, 112, 40)
        THEN GoTo(g1, PSCREEN_JOG_HOMING)
        ELSE g1

\* handleProbingWorkTouch whose zero buttons address the selected system
handleProbingWorkTouch_selectedSystem(g, x, y) ==
    LET ZeroOf == IF g.pendantProbing.selectedCoordIndex = 0
                  THEN "G10 L20 P1" ELSE "G10 L20 P2"
        coordHits == {i \in 0..3 : isTouchInBounds(x, y, 5 + i * 56, 55, 52, 38)}
        g1 == IF isTouchInBounds(x, y, 5, 230, 46, 38)
              THEN Command(Animate(g, "zeroX"), << ZeroOf, "X0" >>)
              ELSE IF isTouchInBounds(x, y, 52, 230, 46, 38)
              THEN Command(Animate(g, "zeroY"), << ZeroOf, "Y0" >>)
              ELSE IF isTouchInBounds(x, y, 99, 230, 46, 38)
              THEN Command(Animate(g, "zeroZ"), << ZeroOf, "Z0" >>)
              ELSE IF isTouchInBounds(x, y, 146, 230, 46, 38)
              THEN Command(Animate(g, "zeroA"), << ZeroOf, "A0" >>)
              ELSE IF isTouchInBounds(x, y, 193, 230, 46, 38)
              THEN Command(Animate(g, "zeroAll"),
                           << ZeroOf, "X0 Y0 Z0 A0" >>)
              ELSE g
    IN  IF coordHits # {}
        THEN redrawWorkCoordButtons(
                 [g EXCEPT !.pendantProbing.selectedCoordIndex = FirstHit(coordHits),
                           !.pendantProbing.selectedCoordSystem =
                                coords[FirstHit(coordHits) + 1]])
        ELSE IF isTouchInBounds(x, y, 5, 277, 112, 40)
        THEN GoTo(g1, PSCREEN_MAIN_MENU)
        ELSE IF isTouchInBounds(x, y, 123, 277, 112, 40)
        THEN GoTo(g1, PSCREEN_JOG_HOMING)
        ELSE g1

handleProbingWorkTouch(g, x, y) ==
    LET coordHits == {i \in 0..3 : isTouchInBounds(x, y, 5 + i * 56, 55, 52, 38)}
        g1 == IF isTouchInBounds(x, y, 5, 230, 46, 38)
              THEN Command(Animate(g, "zeroX"), << "G10 L20 P1", "X0" >>)
              ELSE IF isTouchInBounds(x, y, 52, 230, 46, 38)
              THEN Command(Animate(g, "zeroY"), << "G10 L20 P1", "Y0" >>)
              ELSE IF isTouchInBounds(x, y, 99, 230, 46, 38)
              THEN Command(Animate(g, "zeroZ"), << "G10 L20 P1", "Z0" >>)
              ELSE IF isTouchInBounds(x, y, 146, 230, 46, 38)
              THEN Command(Animate(g, "zeroA"), << "G10 L20 P1", "A0" >>)
              ELSE IF isTouchInBounds(x, y, 193, 230, 46, 38)
              THEN Command(Animate(g, "zeroAll"),
                           << "G10 L20 P1", "X0 Y0 Z0 A0" >>)
              ELSE g
    IN  IF coordHits # {}
        THEN redrawWorkCoordButtons(
                 [g EXCEPT !.pendantProbing.selectedCoordIndex = FirstHit(coordHits),
                           !.pendantProbing.selectedCoordSystem =
                                coords[FirstHit(coordHits) + 1]])
        ELSE IF isTouchInBounds(x, y, 5, 277, 112, 40)
        THEN GoTo(g1, PSCREEN_MAIN_MENU)
        ELSE IF isTouchInBounds(x, y, 123, 277, 112, 40)
        THEN GoTo(g1, PSCREEN_JOG_HOMING)
        ELSE g1

handleMacrosTouch(g, x, y) ==
    LET macroHits == {i \in 0..9 :
                          isTouchInBounds(x, y, 5 + (i % 2) * 118,
                                          40 + (i \div 2) * 48, 112, 43)}
    IN  IF macroHits # {}
        THEN Command(Animate(g, "macroButton"),
                     << "Executing Macro", FirstHit(macroHits) >>)
        ELSE IF isTouchInBounds(x, y, 5, 280, 230, 40)
        THEN GoTo(g, PSCREEN_MAIN_MENU)
        ELSE g

\* handleProbingTouch that numbers the probe types from 1
handleProbingTouch_fromOne(g, x, y) ==
    LET typeHits == {i \in 0..1 : isTouchInBounds(x, y, 5, 116 + i * 43, 230, 38)}
    IN  IF typeHits # {}
        THEN Debug([Animate(g, "probeTypeButton")
                       EXCEPT !.pendantProbe.selectedProbeType =
                                  FirstHit(typeHits) + 1],
                   << "Probe type selected", probeTypes[FirstHit(typeHits) + 1] >>)
        ELSE IF isTouchInBounds(x, y, 5, 280, 230, 40)
        THEN GoTo(g, PSCREEN_MAIN_MENU)
        ELSE g

handleProbingTouch(g, x, y) ==
    LET typeHits == {i \in 0..1 : isTouchInBounds(x, y, 5, 116 + i * 43, 230, 38)}
    IN  IF typeHits # {}
        THEN Debug([Animate(g, "probeTypeButton")
                       EXCEPT !.pendantProbe.selectedProbeType = FirstHit(typeHits)],
                   << "Probe type selected", probeTypes[FirstHit(typeHits) + 1] >>)
        ELSE IF isTouchInBounds(x, y, 5, 280, 230, 40)
        THEN GoTo(g, PSCREEN_MAIN_MENU)
        ELSE g

handleStatusTouch(g, x, y) ==
    IF isTouchInBounds(x, y, 5, 280, 112, 40)
    THEN GoTo(g, PSCREEN_MAIN_MENU)
    ELSE IF isTouchInBounds(x, y, 123, 280, 112, 40)
    THEN GoTo(g, PSCREEN_FLUIDNC)
    ELSE g

\* handleFluidNCTouch whose button rectangle lies below the display
handleFluidNCTouch_offScreen(g, x, y) ==
    IF isTouchInBounds(x, y, 5, 364, 230, 40)
    THEN GoTo(g, PSCREEN_MAIN_MENU)
    ELSE g

handleFluidNCTouch(g, x, y) ==
    IF isTouchInBounds(x, y, 5, 264, 230, 40)
    THEN GoTo(g, PSCREEN_MAIN_MENU)
    ELSE g

\* the switch of handlePendantTouch
dispatchTouch(g, x, y, env) ==
    CASE g.currentPendantScreen = PSCREEN_MAIN_MENU -> handleMainMenuTouch(g, x, y)
      [] g.currentPendantScreen = PSCREEN_JOG_HOMING -> handleJogHomingTouch(g, x, y)
      [] g.currentPendantScreen = PSCREEN_SPINDLE_CONTROL ->
           handleSpindleControlTouch(g, x, y)
      [] g.currentPendantScreen = PSCREEN_FEEDS_SPEEDS ->
           handleFeedsSpeedsTouch(g, x, y)
      [] g.currentPendantScreen = PSCREEN_SD_CARD -> handleSDCardTouch(g, x, y, env)
      [] g.currentPendantScreen = PSCREEN_PROBING_WORK ->
           handleProbingWorkTouch(g, x, y)
      [] g.currentPendantScreen = PSCREEN_PROBING -> handleProbingTouch(g, x, y)
      [] g.currentPendantScreen = PSCREEN_MACROS -> handleMacrosTouch(g, x, y)
      [] g.currentPendantScreen = PSCREEN_STATUS -> handleStatusTouch(g, x, y)
      [] g.currentPendantScreen = PSCREEN_FLUIDNC -> handleFluidNCTouch(g, x, y)

\* the tail of handlePendantTouch: repaint when the screen changed
\* repaintIfChanged that does not record the screen it has drawn
repaintIfChanged_notRecorded(g, env) ==
    IF g.currentPendantScreen # g.previousPendantScreen
    THEN drawCurrentPendantScreen(g, env)
    ELSE g

\* repaintIfChanged that repaints after every accepted touch
repaintIfChanged_always(g, env) ==
    drawCurrentPendantScreen(
        [g EXCEPT !.previousPendantScreen = g.currentPendantScreen], env)

repaintIfChanged(g, env) ==
    IF g.currentPendantScreen # g.previousPendantScreen
    THEN drawCurrentPendantScreen(
             [g EXCEPT !.previousPendantScreen = g.currentPendantScreen], env)
    ELSE g

handlePendantTouch(g, x, y, env) ==
    repaintIfChanged(
        dispatchTouch(Emit(g, [ev |-> "touch", x |-> x, y |-> y]), x, y, env),
        env)

(***************************************************************************)
(* Physical buttons: what a delivered press of button i does (the switch   *)
(* of handlePendantPhysicalButtons)                                        *)
(***************************************************************************)
ConfiguredButtons == {0, 1, 2}

\* yellowClearsAlarm with the test inverted
yellowClearsAlarm_inverted(g) == g.pendantMachine.status # "ALARM"

yellowClearsAlarm(g) == g.pendantMachine.status = "ALARM"

\* pressAction whose cycle start also switches to the Status screen
pressAction_toStatus(g, i) ==
    CASE i = 0 -> [Command(g, << "!" >>) EXCEPT !.pendantMachine.status = "ALARM"]
      [] i = 1 -> IF yellowClearsAlarm(g)
                  THEN [Command(g, << "$X" >>)
                           EXCEPT !.pendantMachine.status = "IDLE"]
                  ELSE [Command(g, << "!" >>)
                           EXCEPT !.pendantMachine.status = "HOLD"]
      [] i = 2 -> [Command(g, << "~" >>)
                      EXCEPT !.pendantMachine.status = "RUN",
                             !.currentPendantScreen = PSCREEN_STATUS]

\* pressAction whose cycle start does not leave the alarm
pressAction_greenKeepsAlarm(g, i) ==
    CASE i = 0 -> [Command(g, << "!" >>) EXCEPT !.pendantMachine.status = "ALARM"]
      [] i = 1 -> IF yellowClearsAlarm(g)
                  THEN [Command(g, << "$X" >>)
                           EXCEPT !.pendantMachine.status = "IDLE"]
                  ELSE [Command(g, << "!" >>)
                           EXCEPT !.pendantMachine.status = "HOLD"]
      [] i = 2 -> [Command(g, << "~" >>)
                      EXCEPT !.pendantMachine.status =
                                 IF @ = "ALARM" THEN "ALARM" ELSE "RUN"]

pressAction(g, i) ==
    CASE i = 0 -> [Command(g, << "!" >>) EXCEPT !.pendantMachine.status = "ALARM"]
      [] i = 1 -> IF yellowClearsAlarm(g)
                  THEN [Command(g, << "$X" >>)
                           EXCEPT !.pendantMachine.status = "IDLE"]
                  ELSE [Command(g, << "!" >>)
                           EXCEPT !.pendantMachine.status = "HOLD"]
      [] i = 2 -> [Command(g, << "~" >>) EXCEPT !.pendantMachine.status = "RUN"]

\* lastDebounceTime[i] = millis() when the reading changed
debounceRestart(i, reading) ==
    IF reading # lastButtonState[i] THEN 0 ELSE sinceDebounce[i]

\* (millis() - lastDebounceTime[i]) > debounceDelay
debounceStable(i, reading) == debounceRestart(i, reading) > debounceDelay

\* pressDelivered that acts on the raw level, without the debounce delay
pressDelivered_undebounced(i, reading) ==
    /\ reading = LOW
    /\ buttonState[i] = HIGH
    /\ ~buttonHandled[i]

\* pressDelivered that acts on the level instead of on its change
pressDelivered_everyPass(i, reading) ==
    /\ debounceStable(i, reading)
    /\ reading = LOW

pressDelivered(i, reading) ==
    /\ debounceStable(i, reading)
    /\ reading = LOW
    /\ buttonState[i] = HIGH
    /\ ~buttonHandled[i]

\* buttonHandled[i] after the pass: set by a delivered press, reset by a
\* stable HIGH
handledAfter(i, reading) ==
    IF debounceStable(i, reading) /\ reading = HIGH THEN FALSE
    ELSE IF pressDelivered(i, reading) THEN TRUE
    ELSE buttonHandled[i]

\* buttonState[i] after the pass
stateAfter(i, reading) ==
    IF debounceStable(i, reading) THEN reading ELSE buttonState[i]

(***************************************************************************)
(* Time                                                                    *)
(***************************************************************************)
\* an elapsed time v after d more milliseconds, saturated above threshold
Later(v, d, threshold) ==
    IF v + d > threshold THEN threshold + 1 ELSE v + d

Commit(g) ==
    /\ currentPendantScreen' = g.currentPendantScreen
    /\ previousPendantScreen' = g.previousPendantScreen
    /\ spritesInitialized' = g.spritesInitialized
    /\ spritesAllocatedFor' = g.spritesAllocatedFor
    /\ sprites' = g.sprites
    /\ pendantMachine' = g.pendantMachine
    /\ pendantJog' = g.pendantJog
    /\ pendantSdCard' = g.pendantSdCard
    /\ pendantSpindle' = g.pendantSpindle
    /\ pendantFeeds' = g.pendantFeeds
    /\ pendantProbing' = g.pendantProbing
    /\ pendantProbe' = g.pendantProbe
    /\ events' = g.events

(***************************************************************************)
(* History variables.  They record inputs and outputs of the run and are   *)
(* read by no action's guard or program assignment.                        *)
(***************************************************************************)
JogButtonRegion(x, y) == isTouchInBounds(x, y, 5, 115, 112, 47)

AxisRegion(axis, x, y) == isTouchInBounds(x, y, 5 + axis * 56, 115, 52, 38)

HomeRegion(axis, x, y) == isTouchInBounds(x, y, 5 + axis * 56, 173, 52, 38)

\* progress of the scenario "Jog button, then axis Z, then home Z", counted
\* over the accepted touches
scenarioAfter(x, y) ==
    IF currentPendantScreen = PSCREEN_MAIN_MENU /\ JogButtonRegion(x, y) THEN 1
    ELSE IF scenario = 1 /\ AxisRegion(2, x, y) THEN 2
    ELSE IF scenario = 2 /\ HomeRegion(2, x, y) THEN 3
    ELSE 0

Released ==
    [ level |-> HIGH, run |-> debounceDelay + 1, open |-> FALSE, span |-> 0,
      releasedAt |-> 0, heldStable |-> FALSE, delivered |-> 0,
      steady |-> TRUE, paused |-> FALSE ]

NoPress ==
    [ span |-> -1, heldStable |-> FALSE, delivered |-> 0,
      steady |-> TRUE, paused |-> FALSE ]

\* the raw history of a button's line after one more polled reading, during
\* which `fired` presses (0 or 1) were delivered
pressAfter(p, reading, fired) ==
    LET run == IF reading # p.level THEN 0 ELSE p.run
        opening == ~p.open /\ reading = LOW
        span == IF opening THEN 0 ELSE p.span
        delivered == (IF opening THEN 0 ELSE p.delivered) + fired
    IN  [ level |-> reading,
          run |-> run,
          open |-> p.open \/ reading = LOW,
          span |-> span,
          releasedAt |-> IF p.open /\ p.level = LOW /\ reading = HIGH
                         THEN span ELSE IF opening THEN 0 ELSE p.releasedAt,
          heldStable |-> (~opening /\ p.heldStable)
                            \/ (reading = LOW /\ run > debounceDelay),
          delivered |-> IF delivered > 2 THEN 2 ELSE delivered,
          steady |-> IF opening \/ observe # "pause" THEN TRUE
                     ELSE p.steady /\ ~(reading = LOW /\ p.level = HIGH),
          paused |-> ~opening /\ p.paused ]

\* the depression ends when the line is read HIGH and settled
pressCloses(q) == q.open /\ q.level = HIGH /\ q.run > debounceDelay

\* d milliseconds go by; the touch step lets them go by in an animation pause
pressElapsed(p, d) ==
    [p EXCEPT !.run = Later(@, d, debounceDelay),
              !.span = IF p.open THEN Later(@, d, debounceDelay) ELSE @,
              !.paused = @ \/ (/\ observe = "pause"
                               /\ pc = "touch"
                               /\ d > 0
                               /\ p.open
                               /\ p.level = LOW)]

\* the clock line did not fall between the last two passes of the loop
NoFall == "none"

\* no finger on the panel
NoHold == [point |-> << >>, actions |-> 0, transitions |-> 0]

\* the touch that lasts at the point tp since its first sample, after one
\* more sample: the accepted samples of it that did something and those that
\* changed the screen (counted up to 2); a pass without a sample is a release
holdAfter(tp, accepted, g) ==
    LET base == IF hold.point = tp THEN hold
                ELSE [point |-> tp, actions |-> 0, transitions |-> 0]
        acted == IF accepted /\ (Len(g.events) > 1
                                   \/ g.currentPendantScreen # currentPendantScreen)
                 THEN 1 ELSE 0
        moved == IF accepted /\ g.currentPendantScreen # currentPendantScreen
                 THEN 1 ELSE 0
        UpTo2(n) == IF n > 2 THEN 2 ELSE n
    IN  IF observe # "hold" THEN hold
        ELSE IF tp = << >> THEN NoHold
        ELSE [base EXCEPT !.actions = UpTo2(@ + acted),
                          !.transitions = UpTo2(@ + moved)]

recordTime(d) ==
    /\ press' = IF observe \in {"debounce", "pause"}
                THEN [i \in 0..2 |-> pressElapsed(press[i], d)]
                ELSE press
    /\ pressLog' = IF observe = "pass" /\ pc = "fnc_poll" THEN << >>
                   ELSE pressLog
    /\ fallScreen' = IF observe = "dial" /\ pc = "fnc_poll"
                     THEN IF encoderCLK = HIGH /\ encoderCLK' = LOW
                          THEN currentPendantScreen
                          ELSE NoFall
                     ELSE fallScreen
    /\ UNCHANGED << observe, lastPress >>

deliveredCommands(g) ==
    SelectSeq(g.events, LAMBDA e : e.ev = "cmd")

recordReading(i, reading, g) ==
    LET cmds == deliveredCommands(g)
        q == pressAfter(press[i], reading, Len(cmds))
    IN  /\ press' = IF observe \notin {"debounce", "pause"} THEN press
                    ELSE [press EXCEPT ![i] = IF pressCloses(q)
                                              THEN [Released EXCEPT !.run = q.run]
                                              ELSE q]
        /\ lastPress' = IF observe \in {"debounce", "pause"} /\ pressCloses(q)
                        THEN [lastPress EXCEPT ![i] =
                                [span |-> q.releasedAt,
                                 heldStable |-> q.heldStable,
                                 delivered |-> q.delivered,
                                 steady |-> q.steady,
                                 paused |-> q.paused]]
                        ELSE lastPress
        /\ pressLog' = IF observe = "presses" /\ cmds # << >>
                       THEN LET log == Append(pressLog,
                                              [button |-> i, line |-> cmds[1].line])
                            IN  IF Len(log) > 3 THEN Tail(log) ELSE log
                       ELSE IF observe = "pass" /\ cmds # << >>
                       THEN Append(pressLog,
                                   [button |-> i, line |-> cmds[1].line,
                                    screen |-> g.currentPendantScreen])
                       ELSE pressLog
        /\ UNCHANGED << observe, scenario, fallScreen, hold >>

(***************************************************************************)
(* Initial state: the initializers of the globals and of the function      *)
(* statics.  setup() has waited 2000 ms before setup_pendant() runs, so    *)
(* every timestamp (initially 0) is already older than its threshold.      *)
(***************************************************************************)
\* the program's memory when setup() starts, at power-on or reset
PowerOn ==
    [ pc |-> "setup",
      currentPendantScreen |-> PSCREEN_MAIN_MENU,
      previousPendantScreen |-> PSCREEN_MAIN_MENU,
      spritesInitialized |-> FALSE,
      spritesAllocatedFor |-> PSCREEN_MAIN_MENU,
      sprites |-> [s \in Sprites |-> NoBuffer],
      pendantMachine |->
           [ status |-> "IDLE", currentFile |-> "No file loaded",
             feedRate |-> 1500, spindleRPM |-> 12000, spindleDir |-> "Fwd",
             spindleRunning |-> FALSE, feedOverride |-> 100,
             spindleOverride |-> 100, workCoordSystem |-> "G54",
             displayRotation |-> "Normal", rotation |-> RotationNormal ],
      pendantJog |-> [selectedAxis |-> 0, increment |-> 10, selectedIncrement |-> 1],
      pendantSdCard |-> [selectedFile |-> 0, scrollOffset |-> 0, fileCount |-> fileCount],
      pendantSpindle |-> [selectedPreset |-> 2, directionFwd |-> TRUE],
      pendantFeeds |-> [selectedFeedOverride |-> 2, selectedSpindleOverride |-> 2],
      pendantProbing |-> [selectedCoordSystem |-> "G54", selectedCoordIndex |-> 0],
      pendantProbe |-> [selectedProbeType |-> -1],
      sinceDebounce |-> [i \in 0..2 |-> debounceDelay + 1],
      lastButtonState |-> [i \in 0..2 |-> HIGH],
      buttonState |-> [i \in 0..2 |-> HIGH],
      buttonHandled |-> [i \in 0..2 |-> FALSE],
      lastJogEncoderCLK |-> HIGH,
      sinceJog |-> JogDebounce + 1,
      lastEncoderCLK |-> HIGH,
      sinceRotation |-> RotationDebounce + 1,
      lastScreen |-> PSCREEN_MAIN_MENU,
      sinceSpriteUpdate |-> SpriteUpdateInterval + 1,
      sinceTouch |-> TouchDebounce + 1,
      encoderCLK |-> HIGH,
      events |-> << >> ]

InitRAM ==
    /\ pc = PowerOn.pc
    /\ currentPendantScreen = PowerOn.currentPendantScreen
    /\ previousPendantScreen = PowerOn.previousPendantScreen
    /\ spritesInitialized = PowerOn.spritesInitialized
    /\ spritesAllocatedFor = PowerOn.spritesAllocatedFor
    /\ sprites = PowerOn.sprites
    /\ pendantMachine = PowerOn.pendantMachine
    /\ pendantJog = PowerOn.pendantJog
    /\ pendantSdCard = PowerOn.pendantSdCard
    /\ pendantSpindle = PowerOn.pendantSpindle
    /\ pendantFeeds = PowerOn.pendantFeeds
    /\ pendantProbing = PowerOn.pendantProbing
    /\ pendantProbe = PowerOn.pendantProbe
    /\ sinceDebounce = PowerOn.sinceDebounce
    /\ lastButtonState = PowerOn.lastButtonState
    /\ buttonState = PowerOn.buttonState
    /\ buttonHandled = PowerOn.buttonHandled
    /\ lastJogEncoderCLK = PowerOn.lastJogEncoderCLK
    /\ sinceJog = PowerOn.sinceJog
    /\ lastEncoderCLK = PowerOn.lastEncoderCLK
    /\ sinceRotation = PowerOn.sinceRotation
    /\ lastScreen = PowerOn.lastScreen
    /\ sinceSpriteUpdate = PowerOn.sinceSpriteUpdate
    /\ sinceTouch = PowerOn.sinceTouch
    /\ encoderCLK = PowerOn.encoderCLK
    /\ events = PowerOn.events

\* a device whose store holds no rotation preference yet
InitProgram == InitRAM /\ nvs = {}

InitHistory ==
    /\ scenario = 0
    /\ press = [i \in 0..2 |-> Released]
    /\ lastPress = [i \in 0..2 |-> NoPress]
    /\ pressLog = << >>
    /\ fallScreen = NoFall
    /\ hold = NoHold

Init == InitProgram /\ InitHistory /\ observe = "none"

(***************************************************************************)
(* setup_pendant(): load the stored rotation and draw the initial screen   *)
(***************************************************************************)
\* getInt that finds no stored value
getInt_unset(default) == default

getInt(default) == IF nvs = {} THEN default ELSE CHOOSE v \in nvs : TRUE

rotationName(rotation) ==
    IF rotation = RotationNormal THEN "Normal" ELSE "Upside Down"

setRotation(g, rotation) ==
    Emit([g EXCEPT !.pendantMachine.rotation = rotation,
                   !.pendantMachine.displayRotation = rotationName(rotation)],
         [ev |-> "setRotation", rotation |-> rotation])

setup_pendant(envs) ==
    /\ pc = "setup"
    /\ \E env \in envs :
         Commit(Debug(drawCurrentPendantScreen(
                          setRotation(Globals, getInt(RotationNormal)), env),
                      "CNC Pendant UI Initialized"))
    /\ pc' = "fnc_poll"
    /\ UNCHANGED << nvs, buttonVars, encoderVars, sinceSpriteUpdate,
                    sinceTouch, encoderCLK, historyVars >>

(***************************************************************************)
(* loop(): fnc_poll().  Between two passes of loop_pendant d milliseconds  *)
(* go by and the encoder's clock line takes a level.                       *)
(***************************************************************************)
elapse(d) ==
    /\ sinceDebounce' =
         [i \in 0..2 |-> Later(sinceDebounce[i], d, debounceDelay)]
    /\ sinceJog' = Later(sinceJog, d, JogDebounce)
    /\ sinceRotation' = Later(sinceRotation, d, RotationDebounce)
    /\ sinceSpriteUpdate' = Later(sinceSpriteUpdate, d, SpriteUpdateInterval)
    /\ recordTime(d)

fnc_poll(steps, clks) ==
    /\ pc = "fnc_poll"
    /\ encoderCLK' \in clks
    /\ \E d \in steps :
         /\ elapse(d)
         /\ sinceTouch' = Later(sinceTouch, d, TouchDebounce)
    /\ events' = << >>
    /\ pc' = "button0"
    /\ UNCHANGED << uiVars, nvs, lastButtonState, buttonState, buttonHandled,
                    lastJogEncoderCLK, lastEncoderCLK, lastScreen, scenario,
                    hold >>

(***************************************************************************)
(* handlePendantPhysicalButtons(): one pass of its loop body, for button i *)
(***************************************************************************)
buttonPc == <<"button0", "button1", "button2">>

\* afterButton that leaves the jog block out
afterButton_toRotation(i) == IF i = 2 THEN "rotation" ELSE buttonPc[i + 2]

afterButton(i) == IF i = 2 THEN "jog" ELSE buttonPc[i + 2]

handlePendantPhysicalButton(i, readings, envs) ==
    /\ pc = buttonPc[i + 1]
    /\ pc' = afterButton(i)
    /\ IF i \notin ConfiguredButtons
       THEN /\ events' = << >>
            /\ UNCHANGED << uiVars, buttonVars, historyVars >>
       ELSE \E reading \in readings, env \in envs :
              LET g == IF pressDelivered(i, reading)
                       THEN drawCurrentPendantScreen(pressAction(Globals, i), env)
                       ELSE Globals
              IN  /\ sinceDebounce' =
                       [sinceDebounce EXCEPT ![i] = debounceRestart(i, reading)]
                  /\ lastButtonState' = [lastButtonState EXCEPT ![i] = reading]
                  /\ buttonHandled' =
                       [buttonHandled EXCEPT ![i] = handledAfter(i, reading)]
                  /\ buttonState' =
                       [buttonState EXCEPT ![i] = stateAfter(i, reading)]
                  /\ Commit(g)
                  /\ recordReading(i, reading, g)
    /\ UNCHANGED << nvs, encoderVars, sinceSpriteUpdate, sinceTouch, encoderCLK >>

(***************************************************************************)
(* loop_pendant(): jog dial on the Jog & Homing screen                     *)
(***************************************************************************)
\* jogDistance with the two directions exchanged
jogDistance_reversed(g, clockwise) ==
    IF clockwise THEN 0 - g.pendantJog.increment ELSE g.pendantJog.increment

jogDistance(g, clockwise) ==
    IF clockwise THEN g.pendantJog.increment ELSE 0 - g.pendantJog.increment

\* digitalRead(ENCODER_DT), then the two dbg_printf lines
jogCommand(g, currentDT) ==
    Debug(Command(Emit(g, [ev |-> "digitalRead", pin |-> "ENCODER_DT",
                           level |-> currentDT]),
                  << "$J=G91", axisNames[g.pendantJog.selectedAxis + 1],
                     jogDistance(g, currentDT = HIGH), "F1000" >>),
          "Jog")

\* jogTick that looks at the level of the clock line, not at its change
jogTick_level == encoderCLK = LOW

jogTick == encoderCLK # lastJogEncoderCLK /\ encoderCLK = LOW

\* jogEncoder that serves the dial on every screen
jogEncoder_anyScreen(dts) ==
    /\ pc = "jog"
    /\ pc' = "rotation"
    /\ lastJogEncoderCLK' = encoderCLK
    /\ IF jogTick /\ sinceJog > JogDebounce
       THEN /\ \E currentDT \in dts : Commit(jogCommand(Globals, currentDT))
            /\ sinceJog' = 0
       ELSE /\ Commit(Globals)
            /\ UNCHANGED sinceJog
    /\ UNCHANGED << nvs, buttonVars, lastEncoderCLK, sinceRotation,
                    lastScreen, sinceSpriteUpdate, sinceTouch, encoderCLK,
                    historyVars >>

jogEncoder(dts) ==
    /\ pc = "jog"
    /\ pc' = "rotation"
    /\ IF currentPendantScreen = PSCREEN_JOG_HOMING
       THEN /\ lastJogEncoderCLK' = encoderCLK
            /\ IF jogTick /\ sinceJog > JogDebounce
               THEN /\ \E currentDT \in dts :
                         Commit(jogCommand(Globals, currentDT))
                    /\ sinceJog' = 0
               ELSE /\ Commit(Globals)
                    /\ UNCHANGED sinceJog
       ELSE /\ Commit(Globals)
            /\ UNCHANGED << lastJogEncoderCLK, sinceJog >>
    /\ UNCHANGED << nvs, buttonVars, lastEncoderCLK, sinceRotation,
                    lastScreen, sinceSpriteUpdate, sinceTouch, encoderCLK,
                    historyVars >>

(***************************************************************************)
(* loop_pendant(): jog dial on the FluidNC screen toggles the rotation     *)
(***************************************************************************)
\* toggledRotation that turns the display upside down and leaves it there
toggledRotation_oneWay(rotation) == RotationUpsideDown

toggledRotation(rotation) ==
    IF rotation = RotationNormal THEN RotationUpsideDown ELSE RotationNormal

\* resyncedCLK without the reset on entering the FluidNC screen
resyncedCLK_stale == lastEncoderCLK

\* lastEncoderCLK after the "reset encoder state when entering" block
resyncedCLK ==
    IF currentPendantScreen = PSCREEN_FLUIDNC /\ lastScreen # PSCREEN_FLUIDNC
    THEN encoderCLK
    ELSE lastEncoderCLK

rotationTick == encoderCLK # resyncedCLK /\ encoderCLK = LOW

toggleRotation(g, env) ==
    LET rotation == toggledRotation(g.pendantMachine.rotation)
    IN  Debug(drawCurrentPendantScreen(
                  Emit(setRotation(g, rotation),
                       [ev |-> "putInt", rotation |-> rotation]), env),
              "Display rotation toggled")

rotationEncoder(envs) ==
    /\ pc = "rotation"
    /\ pc' = "sprites"
    /\ lastScreen' = currentPendantScreen
    /\ IF currentPendantScreen = PSCREEN_FLUIDNC
       THEN /\ lastEncoderCLK' = encoderCLK
            /\ IF rotationTick /\ sinceRotation > RotationDebounce
               THEN /\ \E env \in envs, currentDT \in {HIGH, LOW} :
                         Commit(toggleRotation(
                                    Emit(Globals,
                                         [ev |-> "digitalRead",
                                          pin |-> "ENCODER_DT",
                                          level |-> currentDT]), env))
                    /\ nvs' = {toggledRotation(pendantMachine.rotation)}
                    /\ sinceRotation' = 0
               ELSE /\ Commit(Globals)
                    /\ UNCHANGED << nvs, sinceRotation >>
       ELSE /\ Commit(Globals)
            /\ UNCHANGED << nvs, lastEncoderCLK, sinceRotation >>
    /\ UNCHANGED << buttonVars, lastJogEncoderCLK, sinceJog,
                    sinceSpriteUpdate, sinceTouch, encoderCLK, historyVars >>

(***************************************************************************)
(* loop_pendant(): periodic sprite updates                                 *)
(***************************************************************************)
periodicUpdates(g) ==
    CASE g.currentPendantScreen = PSCREEN_MAIN_MENU -> updateMainMenuDisplay(g)
      [] g.currentPendantScreen = PSCREEN_JOG_HOMING -> updateJogAxisDisplay(g)
      [] g.currentPendantScreen = PSCREEN_PROBING_WORK ->
           updateWorkAreaPos(updateWorkMachinePos(g))
      [] g.currentPendantScreen = PSCREEN_FEEDS_SPEEDS ->
           updateSpindleOverrideDisplay(updateFeedOverrideDisplay(
               updateFeedsSpeedsTopDisplay(g)))
      [] g.currentPendantScreen = PSCREEN_SPINDLE_CONTROL ->
           updateSpindleRPMDisplay(g)
      [] g.currentPendantScreen = PSCREEN_PROBING ->
           updateProbeSettingsDisplay(updateProbePositionDisplay(g))
      [] g.currentPendantScreen = PSCREEN_STATUS ->
           updateStatusFeedSpindle(updateStatusAxisPositions(
               updateStatusCurrentFile(updateStatusMachineStatus(g))))
      [] OTHER -> g

spriteRefresh ==
    /\ pc = "sprites"
    /\ pc' = "touch"
    /\ IF sinceSpriteUpdate > SpriteUpdateInterval
       THEN /\ Commit(IF spritesInitialized
                      THEN periodicUpdates(Globals)
                      ELSE Globals)
            /\ sinceSpriteUpdate' = 0
       ELSE /\ Commit(Globals)
            /\ UNCHANGED sinceSpriteUpdate
    /\ UNCHANGED << nvs, buttonVars, encoderVars, sinceTouch, encoderCLK,
                    historyVars >>

(***************************************************************************)
(* loop_pendant(): touch input.  tp is display.getTouch: << >> when the    *)
(* panel is not touched, else the point << x, y >>.                        *)
(***************************************************************************)
NoTouch == << >>

touchAccepted(tp) == tp # NoTouch /\ sinceTouch > TouchDebounce

touchInput(touches, envs) ==
    /\ pc = "touch"
    /\ pc' = "fnc_poll"
    /\ \E tp \in touches, env \in envs :
         IF touchAccepted(tp)
         THEN LET g == handlePendantTouch(Globals, tp[1], tp[2], env)
              IN  /\ Commit(g)
                  /\ sinceTouch' = 0
                  /\ elapse(g.delayed)
                  /\ scenario' = IF observe = "scenario"
                                 THEN scenarioAfter(tp[1], tp[2])
                                 ELSE scenario
                  /\ hold' = holdAfter(tp, TRUE, g)
         ELSE /\ Commit(IF tp = NoTouch THEN Globals
                         ELSE Emit(Globals, [ev |-> "touchDropped"]))
              /\ hold' = holdAfter(tp, FALSE, Globals)
              /\ UNCHANGED << sinceTouch, sinceDebounce, sinceJog,
                              sinceRotation, sinceSpriteUpdate, observe,
                              scenario, press, lastPress, pressLog,
                              fallScreen >>
    /\ UNCHANGED << nvs, lastButtonState, buttonState, buttonHandled,
                    lastJogEncoderCLK, lastEncoderCLK, lastScreen, encoderCLK >>

(***************************************************************************)
(* Inputs                                                                  *)
(***************************************************************************)
Levels == {HIGH, LOW}

\* free heap just below and at the threshold; no createSprite fails
Heaps == {LowHeapThreshold - 1, LowHeapThreshold}

Envs == [freeHeap : Heaps, fail : {{}}]

EnoughHeap == [freeHeap : {LowHeapThreshold}, fail : {{}}]

\* Touch points.  Each lies in the region named, and where the layout allows
\* in a gap between the buttons of the other screens.
JogPoint == <<100, 158>>
AxisZPoint == <<158, 115>>
HomeZPoint == <<158, 175>>
FeedsPoint == <<79, 213>>
SpindlePoint == <<235, 213>>
MacrosPoint == <<80, 229>>
SdCardPoint == <<158, 229>>
LeftBackPoint == <<60, 290>>
RightBackPoint == <<180, 290>>

(***************************************************************************)
(* Spec: navigation over all screens with the sprite cache, at free heap   *)
(* on both sides of the threshold; the red button, the dial and the        *)
(* periodic refresh act in between.  Every pass of the loop is LongStep    *)
(* after the one before.                                                   *)
(***************************************************************************)
TouchPoints ==
    { NoTouch, AxisZPoint, FeedsPoint, SpindlePoint, MacrosPoint,
      SdCardPoint, LeftBackPoint, RightBackPoint }

ButtonLevels(i) == IF i = 0 THEN Levels ELSE {HIGH}

Next ==
    \/ setup_pendant(Envs)
    \/ fnc_poll({LongStep}, Levels)
    \/ \E i \in 0..2 : handlePendantPhysicalButton(i, ButtonLevels(i), Envs)
    \/ jogEncoder(Levels)
    \/ rotationEncoder(Envs)
    \/ spriteRefresh
    \/ touchInput(TouchPoints, Envs)

Spec == Init /\ [][Next]_vars

(***************************************************************************)
(* SpecTouch: touches that are accepted or dropped (passes of the loop     *)
(* follow one another at once or after LongStep), with the green button    *)
(* and the dial; the heap is never short.                                  *)
(***************************************************************************)
InitTouch == InitProgram /\ InitHistory /\ observe = "scenario"

ScenarioPoints ==
    { NoTouch, JogPoint, AxisZPoint, HomeZPoint, SdCardPoint, LeftBackPoint,
      RightBackPoint }

GreenLevels(i) == IF i = 2 THEN Levels ELSE {HIGH}

\* a pass of the loop follows the one before at once or after a long while
ScenarioSteps == {0, LongStep}

NextTouch ==
    \/ setup_pendant(EnoughHeap)
    \/ fnc_poll(ScenarioSteps, Levels)
    \/ \E i \in 0..2 : handlePendantPhysicalButton(i, GreenLevels(i), EnoughHeap)
    \/ jogEncoder(Levels)
    \/ rotationEncoder(EnoughHeap)
    \/ spriteRefresh
    \/ touchInput(ScenarioPoints, EnoughHeap)

SpecTouch == InitTouch /\ [][NextTouch]_vars

(***************************************************************************)
(* SpecDebounce: the red and the yellow button bounce; passes of the loop  *)
(* are ShortStep or LongStep apart.                                        *)
(***************************************************************************)
InitDebounce == InitProgram /\ InitHistory /\ observe = "debounce"

BouncingLevels(i) == IF i \in {0, 1} THEN Levels ELSE {HIGH}

\* the passes of the loop are a short or a long while apart
BothSteps == {ShortStep, LongStep}

NextDebounce ==
    \/ setup_pendant(EnoughHeap)
    \/ fnc_poll(BothSteps, {HIGH})
    \/ \E i \in 0..2 : handlePendantPhysicalButton(i, BouncingLevels(i), EnoughHeap)
    \/ jogEncoder(Levels)
    \/ rotationEncoder(EnoughHeap)
    \/ spriteRefresh
    \/ touchInput({NoTouch}, EnoughHeap)

SpecDebounce == InitDebounce /\ [][NextDebounce]_vars

(***************************************************************************)
(* SpecPresses: all three buttons are pressed and released, LongStep       *)
(* between passes; touches lead to the Jog & Homing screen and back.       *)
(***************************************************************************)
InitPresses == InitProgram /\ InitHistory /\ observe = "presses"

PressesPoints == {NoTouch, LeftBackPoint, JogPoint}

NextPresses ==
    \/ setup_pendant(EnoughHeap)
    \/ fnc_poll({LongStep}, {HIGH})
    \/ \E i \in 0..2 : handlePendantPhysicalButton(i, Levels, EnoughHeap)
    \/ jogEncoder(Levels)
    \/ rotationEncoder(EnoughHeap)
    \/ spriteRefresh
    \/ touchInput(PressesPoints, EnoughHeap)

SpecPresses == InitPresses /\ [][NextPresses]_vars

(***************************************************************************)
(* SpecNavigate: touches on every button of the Main Menu and on the       *)
(* navigation buttons of the other screens; no button is pressed, the dial *)
(* rests, the heap is never short, LongStep between passes.                *)
(***************************************************************************)
NavigationPoints ==
    { JogPoint, AxisZPoint, HomeZPoint, FeedsPoint, SpindlePoint, MacrosPoint,
      SdCardPoint, LeftBackPoint, RightBackPoint }

NavigationTouches == {NoTouch} \cup NavigationPoints

NextNavigate ==
    \/ setup_pendant(EnoughHeap)
    \/ fnc_poll({LongStep}, {HIGH})
    \/ \E i \in 0..2 : handlePendantPhysicalButton(i, {HIGH}, EnoughHeap)
    \/ jogEncoder(Levels)
    \/ rotationEncoder(EnoughHeap)
    \/ spriteRefresh
    \/ touchInput(NavigationTouches, EnoughHeap)

SpecNavigate == Init /\ [][NextNavigate]_vars

(***************************************************************************)
(* SpecJog: the Jog & Homing screen with its axis and increment buttons    *)
(* and the dial turning either way; passes of the loop are ShortStep or    *)
(* LongStep apart.                                                         *)
(***************************************************************************)
AxisXPoint == <<30, 130>>

IncrementPoint(i) == <<30 + 56 * i, 250>>

JogPoints ==
    { NoTouch, AxisXPoint, AxisZPoint, LeftBackPoint }
        \cup {IncrementPoint(i) : i \in 0..3}

NextJog ==
    \/ setup_pendant(EnoughHeap)
    \/ fnc_poll(BothSteps, Levels)
    \/ \E i \in 0..2 : handlePendantPhysicalButton(i, {HIGH}, EnoughHeap)
    \/ jogEncoder(Levels)
    \/ rotationEncoder(EnoughHeap)
    \/ spriteRefresh
    \/ touchInput(JogPoints, EnoughHeap)

SpecJog == Init /\ [][NextJog]_vars

(***************************************************************************)
(* SpecFeeds: the Feeds & Speeds screen with its ten override buttons, at  *)
(* free heap on both sides of the threshold.                               *)
(***************************************************************************)
FeedOverridePoint(i) ==
    IF i < 3 THEN <<40 + 78 * i, 110>>
    ELSE IF i = 3 THEN <<40, 165>> ELSE <<200, 165>>

SpindleOverridePoint(i) ==
    IF i < 3 THEN <<40 + 78 * i, 216>>
    ELSE IF i = 3 THEN <<40, 268>> ELSE <<200, 268>>

FeedsPoints ==
    { NoTouch, FeedsPoint, LeftBackPoint }
        \cup {FeedOverridePoint(i) : i \in 0..4}
        \cup {SpindleOverridePoint(i) : i \in 0..4}

NextFeeds ==
    \/ setup_pendant(Envs)
    \/ fnc_poll({LongStep}, {HIGH})
    \/ \E i \in 0..2 : handlePendantPhysicalButton(i, {HIGH}, Envs)
    \/ jogEncoder({HIGH})
    \/ rotationEncoder(Envs)
    \/ spriteRefresh
    \/ touchInput(FeedsPoints, Envs)

SpecFeeds == Init /\ [][NextFeeds]_vars

(***************************************************************************)
(* SpecRestart: the way to the FluidNC screen, the dial toggling the       *)
(* rotation there, and resets of the device, which start the program over  *)
(* with the store as it was left.                                          *)
(***************************************************************************)
restart ==
    /\ pc \in {"fnc_poll", "sprites"}
    /\ pc' = PowerOn.pc
    /\ currentPendantScreen' = PowerOn.currentPendantScreen
    /\ previousPendantScreen' = PowerOn.previousPendantScreen
    /\ spritesInitialized' = PowerOn.spritesInitialized
    /\ spritesAllocatedFor' = PowerOn.spritesAllocatedFor
    /\ sprites' = PowerOn.sprites
    /\ pendantMachine' = PowerOn.pendantMachine
    /\ pendantJog' = PowerOn.pendantJog
    /\ pendantSdCard' = PowerOn.pendantSdCard
    /\ pendantSpindle' = PowerOn.pendantSpindle
    /\ pendantFeeds' = PowerOn.pendantFeeds
    /\ pendantProbing' = PowerOn.pendantProbing
    /\ pendantProbe' = PowerOn.pendantProbe
    /\ sinceDebounce' = PowerOn.sinceDebounce
    /\ lastButtonState' = PowerOn.lastButtonState
    /\ buttonState' = PowerOn.buttonState
    /\ buttonHandled' = PowerOn.buttonHandled
    /\ lastJogEncoderCLK' = PowerOn.lastJogEncoderCLK
    /\ sinceJog' = PowerOn.sinceJog
    /\ lastEncoderCLK' = PowerOn.lastEncoderCLK
    /\ sinceRotation' = PowerOn.sinceRotation
    /\ lastScreen' = PowerOn.lastScreen
    /\ sinceSpriteUpdate' = PowerOn.sinceSpriteUpdate
    /\ sinceTouch' = PowerOn.sinceTouch
    /\ encoderCLK' = PowerOn.encoderCLK
    /\ events' = PowerOn.events
    /\ UNCHANGED << nvs, historyVars >>

BackPoints == {NoTouch, LeftBackPoint, RightBackPoint}

NextRestart ==
    \/ setup_pendant(EnoughHeap)
    \/ fnc_poll({LongStep}, Levels)
    \/ \E i \in 0..2 : handlePendantPhysicalButton(i, {HIGH}, EnoughHeap)
    \/ jogEncoder(Levels)
    \/ rotationEncoder(EnoughHeap)
    \/ spriteRefresh
    \/ touchInput(BackPoints, EnoughHeap)
    \/ restart

SpecRestart == Init /\ [][NextRestart]_vars

(***************************************************************************)
(* SpecRepaint: all ten screens at free heap on both sides of the          *)
(* threshold, with the red button, whose press repaints the current        *)
(* screen.                                                                 *)
(***************************************************************************)
NextRepaint ==
    \/ setup_pendant(Envs)
    \/ fnc_poll({LongStep}, {HIGH})
    \/ \E i \in 0..2 : handlePendantPhysicalButton(i, ButtonLevels(i), Envs)
    \/ jogEncoder({HIGH})
    \/ rotationEncoder(Envs)
    \/ spriteRefresh
    \/ touchInput(NavigationTouches, Envs)

SpecRepaint == Init /\ [][NextRepaint]_vars

(***************************************************************************)
(* SpecSelect: the first and the last button of every selection group.     *)
(* Most points serve several screens: AxisXPoint is Jog & Homing on the    *)
(* Main Menu, axis X on Jog & Homing and the first probe type on Probing.  *)
(***************************************************************************)
AxisAPoint == <<200, 130>>
LeftPresetPoint == <<40, 200>>
RightPresetPoint == <<200, 200>>
CoordPoint == <<198, 70>>

SelectPoints ==
    { NoTouch, AxisXPoint, AxisAPoint, IncrementPoint(3), LeftPresetPoint,
      RightPresetPoint, FeedOverridePoint(4), CoordPoint, LeftBackPoint }

NextSelect ==
    \/ setup_pendant(EnoughHeap)
    \/ fnc_poll({LongStep}, {HIGH})
    \/ \E i \in 0..2 : handlePendantPhysicalButton(i, {HIGH}, EnoughHeap)
    \/ jogEncoder({HIGH})
    \/ rotationEncoder(EnoughHeap)
    \/ spriteRefresh
    \/ touchInput(SelectPoints, EnoughHeap)

SpecSelect == Init /\ [][NextSelect]_vars

(***************************************************************************)
(* SpecRate: touch samples on passes of the loop that are half the touch   *)
(* debounce time or LongStep apart, so that a sample can arrive exactly    *)
(* TouchDebounce after the one handled before.                             *)
(***************************************************************************)
HalfTouchDebounce == TouchDebounce \div 2

\* the passes of the loop are half the touch interval or a long while apart
HalfSteps == {HalfTouchDebounce, LongStep}

NextRate ==
    \/ setup_pendant(EnoughHeap)
    \/ fnc_poll(HalfSteps, {HIGH})
    \/ \E i \in 0..2 : handlePendantPhysicalButton(i, {HIGH}, EnoughHeap)
    \/ jogEncoder({HIGH})
    \/ rotationEncoder(EnoughHeap)
    \/ spriteRefresh
    \/ touchInput(BackPoints, EnoughHeap)

SpecRate == Init /\ [][NextRate]_vars

(***************************************************************************)
(* SpecRotate: the dial on the FluidNC screen, on passes of the loop that  *)
(* are HalfTouchDebounce or LongStep apart, so that the clock line can     *)
(* fall again within RotationDebounce of a toggle.                         *)
(***************************************************************************)
NextRotate ==
    \/ setup_pendant(EnoughHeap)
    \/ fnc_poll(HalfSteps, Levels)
    \/ \E i \in 0..2 : handlePendantPhysicalButton(i, {HIGH}, EnoughHeap)
    \/ jogEncoder(Levels)
    \/ rotationEncoder(EnoughHeap)
    \/ spriteRefresh
    \/ touchInput(BackPoints, EnoughHeap)

SpecRotate == Init /\ [][NextRotate]_vars

(***************************************************************************)
(* SpecPass: the red and the green button and touches that change the      *)
(* screen, with the button presses delivered in the present pass of the    *)
(* loop on record (observe = "pass").                                      *)
(***************************************************************************)
InitPass == InitProgram /\ InitHistory /\ observe = "pass"

PassLevels(i) == IF i \in {0, 2} THEN Levels ELSE {HIGH}

PassPoints == {NoTouch, LeftBackPoint, JogPoint, RightBackPoint}

NextPass ==
    \/ setup_pendant(EnoughHeap)
    \/ fnc_poll({LongStep}, Levels)
    \/ \E i \in 0..2 : handlePendantPhysicalButton(i, PassLevels(i), EnoughHeap)
    \/ jogEncoder(Levels)
    \/ rotationEncoder(EnoughHeap)
    \/ spriteRefresh
    \/ touchInput(PassPoints, EnoughHeap)

SpecPass == InitPass /\ [][NextPass]_vars

(***************************************************************************)
(* SpecSdCard: touches on the SD Card screen: the file rows, the strip     *)
(* where the fifth row overlaps the Back and Next buttons, the part of     *)
(* Back and Next below the fifth row, and Main Menu.                       *)
(***************************************************************************)
FileRowPoint(i) == <<100, 60 + 44 * i>>
OverlapBackPoint == <<60, 245>>
OverlapNextPoint == <<180, 245>>
ScrollBackPoint == <<60, 270>>
ScrollNextPoint == <<180, 270>>

SdCardPoints ==
    { SdCardPoint, LeftBackPoint, OverlapBackPoint, OverlapNextPoint,
      ScrollBackPoint, ScrollNextPoint }
        \cup { FileRowPoint(i) : i \in 0..(VisibleFiles - 1) }

SdCardTouches == {NoTouch} \cup SdCardPoints

NextSdCard ==
    \/ setup_pendant(Envs)
    \/ fnc_poll({LongStep}, {HIGH})
    \/ \E i \in 0..2 : handlePendantPhysicalButton(i, {HIGH}, Envs)
    \/ jogEncoder(Levels)
    \/ rotationEncoder(Envs)
    \/ spriteRefresh
    \/ touchInput(SdCardTouches, Envs)

SpecSdCard == Init /\ [][NextSdCard]_vars

(***************************************************************************)
(* SpecCommands: every action that has a command: the three buttons, the   *)
(* dial on the Jog & Homing screen, and touches on home Z, spindle start   *)
(* and stop, the zero buttons and two macros, besides touches that change  *)
(* the screen or a selection.                                              *)
(***************************************************************************)
\* Macros on the Main Menu, spindle start, zero Y, macro 8
StartPoint == <<60, 250>>
\* SD Card on the Main Menu, spindle stop, zero all, macro 9, increment 3
ZeroAllPoint == <<215, 250>>
CommandPoints ==
    { JogPoint, HomeZPoint, StartPoint, ZeroAllPoint, LeftBackPoint,
      RightBackPoint }

\* one button is held at a time: button i is read LOW only while the other
\* two are at rest
OneAtATime(i) ==
    IF \A j \in (0..2) \ {i} :
          lastButtonState[j] = HIGH /\ buttonState[j] = HIGH
    THEN Levels
    ELSE {HIGH}

CommandTouches == {NoTouch} \cup CommandPoints

NextCommands ==
    \/ setup_pendant(EnoughHeap)
    \/ fnc_poll({LongStep}, Levels)
    \/ \E i \in 0..2 : handlePendantPhysicalButton(i, OneAtATime(i), EnoughHeap)
    \/ jogEncoder(Levels)
    \/ rotationEncoder(EnoughHeap)
    \/ spriteRefresh
    \/ touchInput(CommandTouches, EnoughHeap)

SpecCommands == Init /\ [][NextCommands]_vars

(***************************************************************************)
(* SpecPause: the red button is pressed and released while touches on the  *)
(* Jog & Homing screen home an axis, passes of the loop ShortStep apart,   *)
(* with each depression of a button on record together with the animation  *)
(* pauses that went by while it was down (observe = "pause").  The level a  *)
(* pass reads is the level the line keeps until the next pass reads it.    *)
(***************************************************************************)
InitPause == InitProgram /\ InitHistory /\ observe = "pause"

PauseLevels(i) == IF i = 0 THEN Levels ELSE {HIGH}

PausePoints == {NoTouch, LeftBackPoint, JogPoint, HomeZPoint}

NextPause ==
    \/ setup_pendant(EnoughHeap)
    \/ fnc_poll({ShortStep}, {HIGH})
    \/ \E i \in 0..2 : handlePendantPhysicalButton(i, PauseLevels(i), EnoughHeap)
    \/ jogEncoder({HIGH})
    \/ rotationEncoder(EnoughHeap)
    \/ spriteRefresh
    \/ touchInput(PausePoints, EnoughHeap)

SpecPause == InitPause /\ [][NextPause]_vars

(***************************************************************************)
(* SpecDial: SpecJog with the falls of the clock line on record: whether   *)
(* the line fell between the last two passes of the loop, and the screen   *)
(* that was current then (observe = "dial").                               *)
(***************************************************************************)
InitDial == InitProgram /\ InitHistory /\ observe = "dial"

SpecDial == InitDial /\ [][NextJog]_vars

(***************************************************************************)
(* SpecAllocFail: all ten screens with enough free heap, where createSprite *)
(* may find no memory for the value display or for the file display.       *)
(***************************************************************************)
FailingEnvs ==
    [freeHeap : {LowHeapThreshold},
     fail : {{}, {"spriteValueDisplay"}, {"spriteFileDisplay"}}]

NextAllocFail ==
    \/ setup_pendant(FailingEnvs)
    \/ fnc_poll({LongStep}, {HIGH})
    \/ \E i \in 0..2 : handlePendantPhysicalButton(i, ButtonLevels(i), FailingEnvs)
    \/ jogEncoder({HIGH})
    \/ rotationEncoder(FailingEnvs)
    \/ spriteRefresh
    \/ touchInput(NavigationTouches, FailingEnvs)

SpecAllocFail == Init /\ [][NextAllocFail]_vars

(***************************************************************************)
(* SpecHold: touches at the bottom left of the panel, where the Main Menu  *)
(* button of Jog & Homing and of Probing and the Probe button of the Main  *)
(* Menu lie, on passes HalfTouchDebounce or LongStep apart, with the touch *)
(* that lasts since its first sample on record (observe = "hold").         *)
(***************************************************************************)
InitHold == InitProgram /\ InitHistory /\ observe = "hold"

HoldPoints == {NoTouch, LeftBackPoint, JogPoint}

NextHold ==
    \/ setup_pendant(EnoughHeap)
    \/ fnc_poll(HalfSteps, {HIGH})
    \/ \E i \in 0..2 : handlePendantPhysicalButton(i, {HIGH}, EnoughHeap)
    \/ jogEncoder({HIGH})
    \/ rotationEncoder(EnoughHeap)
    \/ spriteRefresh
    \/ touchInput(HoldPoints, EnoughHeap)

SpecHold == InitHold /\ [][NextHold]_vars

(***************************************************************************)
(* SpecWorkZero: the Probing Work screen: the four coordinate system       *)
(* buttons and the zero Y and zero all buttons.                            *)
(***************************************************************************)
\* Probing Work on the Main Menu
ProbingWorkPoint == <<180, 130>>

CoordSystemPoint(i) == <<30 + 56 * i, 70>>

WorkZeroPoints ==
    { ProbingWorkPoint, StartPoint, ZeroAllPoint, LeftBackPoint }
        \cup { CoordSystemPoint(i) : i \in 0..3 }

WorkZeroTouches == {NoTouch} \cup WorkZeroPoints

NextWorkZero ==
    \/ setup_pendant(EnoughHeap)
    \/ fnc_poll({LongStep}, {HIGH})
    \/ \E i \in 0..2 : handlePendantPhysicalButton(i, {HIGH}, EnoughHeap)
    \/ jogEncoder({HIGH})
    \/ rotationEncoder(EnoughHeap)
    \/ spriteRefresh
    \/ touchInput(WorkZeroTouches, EnoughHeap)

SpecWorkZero == Init /\ [][NextWorkZero]_vars

(***************************************************************************)
(* Properties                                                              *)
(***************************************************************************)
EventsOf(log, kind) == SelectSeq(log, LAMBDA e : e.ev = kind)

\* the last step handled an accepted touch
AcceptedTouch ==
    pc = "fnc_poll" /\ events # << >> /\ events[1].ev = "touch"

Repaints == EventsOf(events, "fullRepaint")

Commands == EventsOf(events, "cmd")

C9PreviousHoldsOldScreen ==
    [][currentPendantScreen' # currentPendantScreen
         => previousPendantScreen' = currentPendantScreen]_vars

\* C9 (amended): a transition to S sets current to S, then previous to S as
\* well, and invokes the full repaint of S exactly once; previous and current
\* are equal after every step.
C9PreviousFollowsCurrent ==
    [][/\ previousPendantScreen' = currentPendantScreen'
       /\ currentPendantScreen' # currentPendantScreen
            => /\ Len(EventsOf(events', "fullRepaint")) = 1
               /\ EventsOf(events', "fullRepaint")[1].screen
                    = currentPendantScreen']_vars

C9Witness ==
    /\ AcceptedTouch
    /\ currentPendantScreen = PSCREEN_PROBING_WORK
    /\ previousPendantScreen = PSCREEN_PROBING_WORK
    /\ Len(Repaints) = 1

\* the regions of a screen that its touch handler maps to another screen
NavigationRegion(screen, x, y) ==
    CASE screen = PSCREEN_MAIN_MENU ->
           \E col \in {5, 123}, row \in 0..3 :
              isTouchInBounds(x, y, col, 115 + 52 * row, 112, 47)
      [] screen \in {PSCREEN_JOG_HOMING, PSCREEN_PROBING_WORK} ->
           \E col \in {5, 123} : isTouchInBounds(x, y, col, 277, 112, 40)
      [] screen = PSCREEN_SPINDLE_CONTROL -> isTouchInBounds(x, y, 5, 280, 230, 37)
      [] screen \in {PSCREEN_FEEDS_SPEEDS, PSCREEN_MACROS, PSCREEN_PROBING} ->
           isTouchInBounds(x, y, 5, 280, 230, 40)
      [] screen = PSCREEN_SD_CARD ->
           \/ \E row \in 0..(VisibleFiles - 1) :
                 /\ row + pendantSdCard.scrollOffset < pendantSdCard.fileCount
                 /\ isTouchInBounds(x, y, 5, 40 + row * 44, 230, 40)
           \/ isTouchInBounds(x, y, 5, 282, 230, 38)
      [] screen = PSCREEN_STATUS ->
           \E col \in {5, 123} : isTouchInBounds(x, y, col, 280, 112, 40)
      [] screen = PSCREEN_FLUIDNC -> isTouchInBounds(x, y, 5, 264, 230, 40)

\* C10: the current screen changes only in the step that handles an accepted
\* touch, and only when the point lies in a navigation region of the screen
\* that was current; button presses, dial ticks, periodic refreshes and
\* dropped touches leave it unchanged.
C10OnlyNavigationChangesScreen ==
    [][currentPendantScreen' # currentPendantScreen
         => /\ pc = "touch"
            /\ sinceTouch > TouchDebounce
            /\ events' # << >>
            /\ events'[1].ev = "touch"
            /\ NavigationRegion(currentPendantScreen,
                                events'[1].x, events'[1].y)]_vars

\* a file row of the SD card screen has led to the Status screen
C10Witness ==
    /\ AcceptedTouch
    /\ currentPendantScreen = PSCREEN_STATUS
    /\ pendantMachine.currentFile # "No file loaded"
    /\ Repaints # << >>

\* the screen whose full repaint and periodic refresh call the routine
UpdateOwner(routine) ==
    CASE routine = "updateMainMenuDisplay" -> PSCREEN_MAIN_MENU
      [] routine = "updateJogAxisDisplay" -> PSCREEN_JOG_HOMING
      [] routine \in {"updateWorkMachinePos", "updateWorkAreaPos"} ->
           PSCREEN_PROBING_WORK
      [] routine \in {"updateFeedsSpeedsTopDisplay", "updateFeedOverrideDisplay",
                      "updateSpindleOverrideDisplay"} -> PSCREEN_FEEDS_SPEEDS
      [] routine = "updateSpindleRPMDisplay" -> PSCREEN_SPINDLE_CONTROL
      [] routine \in {"updateProbePositionDisplay",
                      "updateProbeSettingsDisplay"} -> PSCREEN_PROBING
      [] routine \in {"updateStatusCurrentFile", "updateStatusMachineStatus",
                      "updateStatusAxisPositions", "updateStatusFeedSpindle"} ->
           PSCREEN_STATUS

NoCacheScreens == {PSCREEN_MACROS, PSCREEN_SD_CARD, PSCREEN_FLUIDNC}

Updates == EventsOf(events, "update")

Blits == SelectSeq(Updates, LAMBDA e : e.pushed)

\* C2: whenever an update routine renders and pushes its sprite, the sprites
\* are initialized, they were allocated for the current screen, and that is
\* the routine's own screen; a call in any other situation pushes nothing.
C2BlitOnlyForBoundScreen ==
    \A k \in 1..Len(Blits) :
       /\ Blits[k].initialized
       /\ Blits[k].allocatedFor = Blits[k].screen
       /\ Blits[k].screen = UpdateOwner(Blits[k].routine)

\* the periodic refresh pushes the axis readout of the Jog & Homing screen,
\* after a touch has selected axis Z and the red button was pressed
C2Witness ==
    /\ pc = "touch"
    /\ Len(Blits) = 1
    /\ Blits[1].routine = "updateJogAxisDisplay"
    /\ pendantJog.selectedAxis = 2
    /\ pendantMachine.status = "ALARM"

\* C3 (state part): when a sprite is created for screen B no other sprite
\* holds a buffer of another screen, every pushed buffer was created for the
\* screen that is current, and nothing is pushed on a screen without cache.
C3NoStaleBuffer ==
    /\ \A k \in 1..Len(events) :
          events[k].ev = "createSprite"
            => events[k].others \subseteq {NoBuffer, events[k].screen}
    /\ \A k \in 1..Len(Blits) :
          /\ Blits[k].buffer = Blits[k].screen
          /\ Blits[k].screen \notin NoCacheScreens

\* C3: on a change of screen the buffers of the old screen are all deleted
\* before any is created for the new one and before its update routines run;
\* a change to a screen without cache leaves the buffers allocated, and no
\* update routine pushes one of them while that screen is current.
C3BuffersReleasedOnTransition ==
    /\ []C3NoStaleBuffer
    /\ [][(/\ currentPendantScreen' # currentPendantScreen
           /\ currentPendantScreen' \in NoCacheScreens)
            => (/\ sprites' = sprites
                /\ EventsOf(events', "update") = << >>)]_vars

\* Status, with its four buffers, has been left for the Main Menu
C3Witness ==
    /\ AcceptedTouch
    /\ currentPendantScreen = PSCREEN_MAIN_MENU
    /\ \E j, k \in 1..Len(events) :
          /\ j < k
          /\ events[j].ev = "deleteSprite"
          /\ events[j].sprite = "spriteFileDisplay"
          /\ events[j].buffer = PSCREEN_STATUS
          /\ events[k].ev = "createSprite"
    /\ Blits # << >>

\* C4 (as the claim states it): an update routine called for its own screen
\* paints its region also when the cache is absent.
C4AbsentCacheStillPaints ==
    \A k \in 1..Len(Updates) :
       Updates[k].screen = UpdateOwner(Updates[k].routine) => Updates[k].pushed

InitCalls(log) == EventsOf(log, "initSprites")

\* C5 (state part): after a binding that found the heap below the threshold
\* no sprite holds a buffer, none was created, and the sprites are marked
\* not initialized.
C5LowHeapLeavesNoBuffer ==
    \A k \in 1..Len(events) :
       (/\ events[k].ev = "initSprites"
        /\ events[k].freeHeap < LowHeapThreshold
        /\ \A j \in (k + 1)..Len(events) : events[j].ev # "initSprites")
       => (/\ \A s \in Sprites : sprites[s] = NoBuffer
           /\ ~spritesInitialized
           /\ \A j \in (k + 1)..Len(events) : events[j].ev # "createSprite")

\* C5: binding checks the free heap after it has released the buffers of the
\* screen bound before; below the threshold it allocates nothing and leaves
\* the sprites not initialized; the next full repaint of a screen with cache
\* attempts the binding again, and the periodic refresh never attempts it.
C5LowHeapSkipsAndRetries ==
    /\ []C5LowHeapLeavesNoBuffer
    /\ [][/\ \A k \in 1..Len(events') :
               (/\ events'[k].ev = "fullRepaint"
                /\ events'[k].screen \notin NoCacheScreens
                /\ ~spritesInitialized)
               => (\E j \in 1..Len(events') :
                      /\ events'[j].ev = "initSprites"
                      /\ events'[j].screen = events'[k].screen)
          /\ (pc = "sprites" => InitCalls(events') = << >>)]_vars

\* a button press repaints the Status screen, and the binding that the
\* repaint attempts is skipped for low heap
C5Witness ==
    /\ pc \in {"button1", "button2", "jog"}
    /\ ~spritesInitialized
    /\ currentPendantScreen = PSCREEN_STATUS
    /\ Len(InitCalls(events)) = 1
    /\ InitCalls(events)[1].freeHeap < LowHeapThreshold
    /\ Commands # << >>

\* a depression of button i has ended
Finished(i) == lastPress[i].span >= 0

Tracker(i) == << lastButtonState[i], buttonState[i], buttonHandled[i] >>

\* C7 (amended, state part): a depression has yielded at most one event, and
\* exactly one from the pass on that read its LOW level settled.
C7OneEventPerDepression ==
    \A i \in 0..2 :
       /\ press[i].delivered <= 1
       /\ (press[i].open /\ press[i].heldStable) => press[i].delivered = 1

C8RedYellowYellow ==
    \A k \in 1..(Len(pressLog) - 1) :
       pressLog[k + 1].button = 1
         => /\ pressLog[k].button = 0 => pressLog[k + 1].line = << "$X" >>
            /\ (pressLog[k].button = 1 /\ pressLog[k].line = << "$X" >>)
                 => pressLog[k + 1].line = << "!" >>

\* C8: the yellow button's command is chosen from the machine status as it
\* is when the press is delivered: "$X" when it is ALARM, "!" otherwise.
C8YellowReadsStatusAtDelivery ==
    /\ []C8RedYellowYellow
    /\ [][(pc = "button1" /\ EventsOf(events', "cmd") # << >>)
            => /\ Len(EventsOf(events', "cmd")) = 1
               /\ EventsOf(events', "cmd")[1].line =
                    IF pendantMachine.status = "ALARM"
                    THEN << "$X" >> ELSE << "!" >>]_vars

C8Witness ==
    pressLog = << [button |-> 0, line |-> << "!" >>],
                  [button |-> 1, line |-> << "$X" >>],
                  [button |-> 1, line |-> << "!" >>] >>

\* the screen that an accepted touch at point p leads to from this state
TouchLeadsTo(p) ==
    handlePendantTouch(Globals, p[1], p[2],
                       [freeHeap |-> LowHeapThreshold, fail |-> {}])
        .currentPendantScreen

\* the region of a screen that its handler maps to the Main Menu
MainMenuRegion(screen, x, y) ==
    CASE screen \in {PSCREEN_JOG_HOMING, PSCREEN_PROBING_WORK} ->
           isTouchInBounds(x, y, 5, 277, 112, 40)
      [] screen = PSCREEN_SPINDLE_CONTROL -> isTouchInBounds(x, y, 5, 280, 230, 37)
      [] screen \in {PSCREEN_FEEDS_SPEEDS, PSCREEN_MACROS, PSCREEN_PROBING} ->
           isTouchInBounds(x, y, 5, 280, 230, 40)
      [] screen = PSCREEN_SD_CARD -> isTouchInBounds(x, y, 5, 282, 230, 38)
      [] screen = PSCREEN_STATUS -> isTouchInBounds(x, y, 5, 280, 112, 40)
      [] screen = PSCREEN_FLUIDNC -> isTouchInBounds(x, y, 5, 264, 230, 40)
      [] OTHER -> FALSE

\* C11 (state part): the machine starts on the Main Menu; on the Main Menu
\* each of the eight screens of its buttons is one accepted touch away, on
\* Status the FluidNC screen is, and on every other screen the Main Menu is,
\* by a touch in its Main Menu region.
C11EveryScreenHasAWayOn ==
    /\ pc = "setup" => currentPendantScreen = PSCREEN_MAIN_MENU
    /\ currentPendantScreen = PSCREEN_MAIN_MENU
         => \A screen \in PendantScreen \ {PSCREEN_MAIN_MENU, PSCREEN_FLUIDNC} :
               \E p \in NavigationPoints : TouchLeadsTo(p) = screen
    /\ currentPendantScreen = PSCREEN_STATUS
         => \E p \in NavigationPoints : TouchLeadsTo(p) = PSCREEN_FLUIDNC
    /\ currentPendantScreen # PSCREEN_MAIN_MENU
         => \E p \in NavigationPoints :
               /\ MainMenuRegion(currentPendantScreen, p[1], p[2])
               /\ TouchLeadsTo(p) = PSCREEN_MAIN_MENU

\* C11: every screen is reachable from the Main Menu by accepted touches and
\* no screen is terminal: an accepted touch in the Main Menu region of the
\* current screen always leads to the Main Menu; the FluidNC screen is
\* entered from Status only.
C11NavigationGraph ==
    /\ []C11EveryScreenHasAWayOn
    /\ [][/\ (/\ pc = "touch"
              /\ events' # << >>
              /\ events'[1].ev = "touch"
              /\ MainMenuRegion(currentPendantScreen,
                                events'[1].x, events'[1].y))
            => currentPendantScreen' = PSCREEN_MAIN_MENU
          /\ (/\ currentPendantScreen' = PSCREEN_FLUIDNC
              /\ currentPendantScreen # PSCREEN_FLUIDNC)
            => currentPendantScreen = PSCREEN_STATUS]_vars

\* the Main Menu has been reached again from the FluidNC screen
C11Witness ==
    /\ AcceptedTouch
    /\ currentPendantScreen = PSCREEN_MAIN_MENU
    /\ lastScreen = PSCREEN_FLUIDNC

\* C12 (state part): the jog distance is the table entry of the selected
\* increment index (in tenths of a millimetre: 1, 10, 100, 1000).
C12IncrementFromTable ==
    /\ pendantJog.selectedIncrement \in 0..3
    /\ pendantJog.increment = increments[pendantJog.selectedIncrement + 1]

\* C12: an accepted dial tick on the Jog & Homing screen emits one relative
\* jog command, for the axis selected at that time, over +increment when the
\* data line reads HIGH (forward) and -increment when it reads LOW (reverse);
\* the increment always is the table entry of the selected index.
C12JogCommand ==
    /\ []C12IncrementFromTable
    /\ [][pc = "jog"
            => IF /\ currentPendantScreen = PSCREEN_JOG_HOMING
                  /\ encoderCLK = LOW
                  /\ lastJogEncoderCLK = HIGH
                  /\ sinceJog > JogDebounce
               THEN /\ Len(events') = 3
                    /\ events'[1].ev = "digitalRead"
                    /\ events'[2] =
                         [ev |-> "cmd",
                          line |-> << "$J=G91",
                                      axisNames[pendantJog.selectedAxis + 1],
                                      IF events'[1].level = HIGH
                                      THEN pendantJog.increment
                                      ELSE 0 - pendantJog.increment,
                                      "F1000" >>]
                    /\ events'[3].ev = "dbg"
               ELSE events' = << >>]_vars

\* axis X, increment 1.0, reverse: the command jogs X by -1.0
C12Witness ==
    /\ pc = "rotation"
    /\ Commands = << [ev |-> "cmd", line |-> << "$J=G91", "X", -10, "F1000" >>] >>

\* the routine has pushed the value as the content of its readout sprite
ReadoutShows(log, routine, value) ==
    \E k \in 1..Len(log) :
       /\ log[k].ev = "update"
       /\ log[k].routine = routine
       /\ log[k].pushed
       /\ log[k].buffer # NoBuffer
       /\ log[k].content = << value >>

\* the step handles an accepted touch at point p of the Feeds & Speeds screen
FeedsTouchAt(p) ==
    /\ pc = "touch"
    /\ currentPendantScreen = PSCREEN_FEEDS_SPEEDS
    /\ events' # << >>
    /\ events'[1] = [ev |-> "touch", x |-> p[1], y |-> p[2]]

\* C13 (state part): each override value is the table entry of its index.
C13OverrideFromTable ==
    /\ pendantFeeds.selectedFeedOverride \in 0..4
    /\ pendantFeeds.selectedSpindleOverride \in 0..4
    /\ pendantMachine.feedOverride =
          percentages[pendantFeeds.selectedFeedOverride + 1]
    /\ pendantMachine.spindleOverride =
          percentages[pendantFeeds.selectedSpindleOverride + 1]

\* C13 (selection part): a touch on override button i sets the index to i and
\* the value to the table entry, for feed and spindle independently.
C13TouchSelects ==
    [][\A i \in 0..4 :
         /\ FeedsTouchAt(FeedOverridePoint(i))
              => /\ pendantFeeds'.selectedFeedOverride = i
                 /\ pendantMachine'.feedOverride = percentages[i + 1]
                 /\ pendantFeeds'.selectedSpindleOverride =
                       pendantFeeds.selectedSpindleOverride
                 /\ pendantMachine'.spindleOverride =
                       pendantMachine.spindleOverride
         /\ FeedsTouchAt(SpindleOverridePoint(i))
              => /\ pendantFeeds'.selectedSpindleOverride = i
                 /\ pendantMachine'.spindleOverride = percentages[i + 1]
                 /\ pendantFeeds'.selectedFeedOverride =
                       pendantFeeds.selectedFeedOverride
                 /\ pendantMachine'.feedOverride =
                       pendantMachine.feedOverride]_vars

\* C13: touching override button i of the Feeds & Speeds screen sets the
\* selected index to i and the override value to {50,75,100,125,150}[i], for
\* feed and spindle independently, and the readout painted afterwards shows
\* exactly that value; each override value always is the table entry of its
\* selected index.
C13ReadoutShowsSelectedValue ==
    /\ []C13OverrideFromTable
    /\ C13TouchSelects
    /\ [][\A i \in 0..4 :
            /\ FeedsTouchAt(FeedOverridePoint(i))
                 => ReadoutShows(events', "updateFeedOverrideDisplay",
                                 percentages[i + 1])
            /\ FeedsTouchAt(SpindleOverridePoint(i))
                 => ReadoutShows(events', "updateSpindleOverrideDisplay",
                                 percentages[i + 1])]_vars

\* the step is an accepted tick of the dial on the FluidNC screen
RotationToggles ==
    /\ pc = "rotation"
    /\ currentPendantScreen = PSCREEN_FLUIDNC
    /\ rotationTick
    /\ sinceRotation > RotationDebounce

\* C14 (state part): the rotation is one of two values and, once loaded, is
\* the stored value (Normal when nothing is stored); toggling twice from the
\* present state gives the present rotation again.
C14TwoStatesInStep ==
    /\ pendantMachine.rotation \in {RotationNormal, RotationUpsideDown}
    /\ pendantMachine.displayRotation = rotationName(pendantMachine.rotation)
    /\ nvs \in {{}, {RotationNormal}, {RotationUpsideDown}}
    /\ pc # "setup" =>
          pendantMachine.rotation =
             (IF nvs = {} THEN RotationNormal ELSE CHOOSE v \in nvs : TRUE)
    /\ \A env \in EnoughHeap :
          LET once == toggleRotation(Globals, env)
              twice == toggleRotation(once, env)
          IN  /\ once.pendantMachine.rotation # pendantMachine.rotation
              /\ twice.pendantMachine.rotation = pendantMachine.rotation
              /\ twice.pendantMachine.displayRotation =
                    pendantMachine.displayRotation

\* C14: a toggle on the FluidNC screen flips the rotation between Normal and
\* Upside Down, two toggles restore it, and every toggle stores the new value,
\* which nothing else overwrites; a restart keeps the store, and setup_pendant
\* then comes up in the rotation stored last (Normal when nothing is stored).
C14TogglePersists ==
    /\ []C14TwoStatesInStep
    /\ [][/\ RotationToggles
             => /\ pendantMachine'.rotation = toggledRotation(pendantMachine.rotation)
                /\ pendantMachine'.rotation # pendantMachine.rotation
                /\ nvs' = {pendantMachine'.rotation}
          /\ ~RotationToggles => nvs' = nvs
          /\ pc = "setup"
             => pendantMachine'.rotation =
                   (IF nvs = {} THEN RotationNormal ELSE CHOOSE v \in nvs : TRUE)
          /\ (pendantMachine'.rotation # pendantMachine.rotation)
             => (RotationToggles \/ pc = "setup" \/ pc' = "setup")]_vars

\* after a restart the program has come up Upside Down from the store
C14Witness ==
    /\ pc = "fnc_poll"
    /\ pendantMachine.rotation = RotationUpsideDown
    /\ nvs = {RotationUpsideDown}
    /\ EventsOf(events, "setRotation") =
          << [ev |-> "setRotation", rotation |-> RotationUpsideDown] >>
    /\ EventsOf(events, "putInt") = << >>

\* the steps of loop_pendant
CoreSteps ==
    {"button0", "button1", "button2", "jog", "rotation", "sprites", "touch"}

\* C15: no step of the core (buttons, dial, periodic refresh, touch) writes a
\* field of the telemetry mirror pendantMachine (status, spindle speed and
\* direction, overrides, current file, rotation).
C15MirrorReadOnly ==
    [][(pc \in CoreSteps) => (pendantMachine' = pendantMachine)]_vars

\* the pushed updates of a log
BlitsOf(log) == SelectSeq(EventsOf(log, "update"), LAMBDA e : e.pushed)

\* the full repaint of screen S from the present state, and the same again
FirstRepaint(S, env) ==
    drawCurrentPendantScreen(GoTo(Globals, S), env)

SecondRepaint(S, env) ==
    drawCurrentPendantScreen([FirstRepaint(S, env) EXCEPT !.events = << >>], env)

\* C16: for every screen S and either heap condition, the full repaint of S
\* run a second time right after the first creates and deletes no sprite,
\* leaves the current and previous screen, the sprites and their binding as
\* the first call left them, and pushes the same readouts with the same
\* contents.
C16RepaintIdempotent ==
    \A S \in PendantScreen, env \in Envs :
       LET first == FirstRepaint(S, env)
           second == SecondRepaint(S, env)
       IN  /\ EventsOf(second.events, "createSprite") = << >>
           /\ EventsOf(second.events, "deleteSprite") = << >>
           /\ EventsOf(second.events, "cmd") = << >>
           /\ second.currentPendantScreen = first.currentPendantScreen
           /\ second.previousPendantScreen = first.previousPendantScreen
           /\ second.spritesInitialized = first.spritesInitialized
           /\ second.spritesAllocatedFor = first.spritesAllocatedFor
           /\ second.sprites = first.sprites
           /\ second.pendantMachine = first.pendantMachine
           /\ BlitsOf(second.events) = BlitsOf(first.events)

\* the red button, pressed while the status is ALARM already, has repainted
\* the screen as it was: no sprite was created or deleted, the readout pushed
C16Witness ==
    /\ pc = "button1"
    /\ Repaints # << >>
    /\ pendantMachine.status = "ALARM"
    /\ EventsOf(events, "createSprite") = << >>
    /\ EventsOf(events, "deleteSprite") = << >>
    /\ Blits # << >>
    /\ Blits = BlitsOf(SecondRepaint(currentPendantScreen,
                                     [freeHeap |-> LowHeapThreshold,
                                      fail |-> {}]).events)

\* C17: on a screen other than Jog & Homing and FluidNC the two dial steps
\* of the loop, whatever the clock line does, emit no command, paint nothing,
\* change no screen, sprite or selection, write neither the rotation nor the
\* store, and leave both tick detectors and their timers as they were.
C17DialIdleElsewhere ==
    [][(/\ pc \in {"jog", "rotation"}
        /\ currentPendantScreen \notin {PSCREEN_JOG_HOMING, PSCREEN_FLUIDNC})
         => /\ events' = << >>
            /\ UNCHANGED << uiVars, nvs, lastJogEncoderCLK, sinceJog,
                            lastEncoderCLK, sinceRotation >>]_vars

\* on the Main Menu the clock line has gone LOW, which on the Jog & Homing
\* screen would be an accepted tick; both dial steps have passed
C17Witness ==
    /\ pc = "sprites"
    /\ currentPendantScreen = PSCREEN_MAIN_MENU
    /\ encoderCLK = LOW
    /\ lastJogEncoderCLK = HIGH
    /\ lastEncoderCLK = HIGH
    /\ sinceJog > JogDebounce
    /\ sinceRotation > RotationDebounce
    /\ events = << >>

Max(a, b) == IF a >= b THEN a ELSE b

\* C18: every selection index is within its bounds: axis 0..3, jog increment
\* 0..3, feed and spindle override 0..4, work coordinate 0..3, spindle preset
\* within the preset table, probe type -1..1, and the SD scroll offset is not
\* negative and shows no row past max(fileCount, 5).
C18SelectionsInBounds ==
    /\ pendantJog.selectedAxis \in 0..3
    /\ pendantJog.selectedIncrement \in 0..3
    /\ pendantFeeds.selectedFeedOverride \in 0..4
    /\ pendantFeeds.selectedSpindleOverride \in 0..4
    /\ pendantProbing.selectedCoordIndex \in 0..3
    /\ pendantSpindle.selectedPreset \in 0..(Len(presets) - 1)
    /\ Len(presets) = 3
    /\ pendantProbe.selectedProbeType \in {-1, 0, 1}
    /\ pendantSdCard.scrollOffset >= 0
    /\ pendantSdCard.scrollOffset + VisibleFiles
          <= Max(pendantSdCard.fileCount, VisibleFiles)

\* axis A, increment 100, feed override 150%, work coordinate G57, the first
\* spindle override and preset have been selected, and the second probe type
\* was chosen last
C18Witness ==
    /\ AcceptedTouch
    /\ pendantJog.selectedAxis = 3
    /\ pendantJog.selectedIncrement = 3
    /\ pendantFeeds.selectedFeedOverride = 4
    /\ pendantFeeds.selectedSpindleOverride = 0
    /\ pendantProbing.selectedCoordIndex = 3
    /\ pendantSpindle.selectedPreset = 0
    /\ pendantProbe.selectedProbeType = 1
    /\ currentPendantScreen = PSCREEN_PROBING

\* the touch step reads a sample; handled: it is passed to handlePendantTouch
\* and the time of the last touch is set; dropped: nothing changes
SampleRead == pc = "touch" /\ events' # << >>

SampleHandled == events'[1].ev = "touch" /\ sinceTouch' = 0

SampleDropped ==
    /\ events' = << [ev |-> "touchDropped"] >>
    /\ UNCHANGED << uiVars, nvs, sinceTouch >>

\* C19: a touch sample is handled iff at least TouchDebounce (200 ms) have
\* passed since the sample handled before, a sample exactly 200 ms later
\* included; an earlier one is dropped and changes no screen, selection or
\* stored value, emits no command and leaves the time of the last touch.
C19HandledFromInterval ==
    [][SampleRead
         => IF sinceTouch >= TouchDebounce THEN SampleHandled
            ELSE SampleDropped]_vars

\* the groups of mutually exclusive buttons: screen, number of buttons, the
\* readout routine that shows the selection (if any) and the selected index
SelectionGroups ==
    { "jogAxisButtons", "jogIncrementButtons", "workCoordButtons",
      "feedOverrideButtons", "spindleOverrideButtons",
      "spindleDirectionButtons", "spindlePresetButtons" }

GroupScreen(group) ==
    CASE group \in {"jogAxisButtons", "jogIncrementButtons"} -> PSCREEN_JOG_HOMING
      [] group = "workCoordButtons" -> PSCREEN_PROBING_WORK
      [] group \in {"feedOverrideButtons", "spindleOverrideButtons"} ->
           PSCREEN_FEEDS_SPEEDS
      [] OTHER -> PSCREEN_SPINDLE_CONTROL

GroupSize(group) ==
    CASE group \in {"feedOverrideButtons", "spindleOverrideButtons"} -> 5
      [] group = "spindleDirectionButtons" -> 2
      [] group = "spindlePresetButtons" -> 3
      [] OTHER -> 4

GroupReadout(group) ==
    CASE group = "jogAxisButtons" -> {"updateJogAxisDisplay"}
      [] group = "feedOverrideButtons" -> {"updateFeedOverrideDisplay"}
      [] group = "spindleOverrideButtons" -> {"updateSpindleOverrideDisplay"}
      [] group \in {"spindleDirectionButtons", "spindlePresetButtons"} ->
           {"updateSpindleRPMDisplay"}
      [] OTHER -> {}

GroupSelection(group) ==
    CASE group = "jogAxisButtons" -> pendantJog.selectedAxis
      [] group = "jogIncrementButtons" -> pendantJog.selectedIncrement
      [] group = "workCoordButtons" -> pendantProbing.selectedCoordIndex
      [] group = "feedOverrideButtons" -> pendantFeeds.selectedFeedOverride
      [] group = "spindleOverrideButtons" -> pendantFeeds.selectedSpindleOverride
      [] group = "spindleDirectionButtons" ->
           IF pendantSpindle.directionFwd THEN 0 ELSE 1
      [] group = "spindlePresetButtons" -> pendantSpindle.selectedPreset

\* button i of the group holds the point
InGroupButton(group, i, x, y) ==
    CASE group = "jogAxisButtons" -> isTouchInBounds(x, y, 5 + i * 56, 115, 52, 38)
      [] group = "jogIncrementButtons" ->
           isTouchInBounds(x, y, 5 + i * 56, 231, 52, 38)
      [] group = "workCoordButtons" -> isTouchInBounds(x, y, 5 + i * 56, 55, 52, 38)
      [] group = "feedOverrideButtons" ->
           IF i < 3 THEN isTouchInBounds(x, y, 5 + i * 78, 95, 72, 37)
           ELSE isTouchInBounds(x, y, IF i = 3 THEN 5 ELSE 161, 137, 72, 37)
      [] group = "spindleOverrideButtons" ->
           IF i < 3 THEN isTouchInBounds(x, y, 5 + i * 78, 194, 72, 37)
           ELSE isTouchInBounds(x, y, IF i = 3 THEN 5 ELSE 161, 236, 72, 37)
      [] group = "spindleDirectionButtons" ->
           isTouchInBounds(x, y, 5 + i * 118, 118, 112, 38)
      [] group = "spindlePresetButtons" ->
           isTouchInBounds(x, y, 5 + i * 75, 178, 70, 37)

SelectionHits(screen, x, y) ==
    { h \in [group : SelectionGroups, index : 0..4] :
        /\ GroupScreen(h.group) = screen
        /\ h.index < GroupSize(h.group)
        /\ InGroupButton(h.group, h.index, x, y) }

JogCommands(log) ==
    SelectSeq(log, LAMBDA e : e.ev = "cmd" /\ e.line[1] = "$J=G91")

\* the clock line has gone from HIGH to LOW since the jog block read it last
ClockFell == lastJogEncoderCLK = HIGH /\ encoderCLK = LOW

\* C21: a jog command is emitted only by the jog step, on the Jog & Homing
\* screen, for a fall of the clock line more than JogDebounce (50 ms) after
\* the jog command before; such a fall emits exactly one command; a fall
\* inside the window emits none and is consumed (the detector takes the LOW
\* level and the window is not restarted), so it yields no command later.
C21JogRateLimit ==
    [][/\ JogCommands(events') # << >>
            => /\ pc = "jog"
               /\ currentPendantScreen = PSCREEN_JOG_HOMING
               /\ ClockFell
               /\ sinceJog > JogDebounce
               /\ sinceJog' = 0
       /\ (pc = "jog" /\ currentPendantScreen = PSCREEN_JOG_HOMING /\ ClockFell)
            => IF sinceJog > JogDebounce
               THEN Len(JogCommands(events')) = 1 /\ Len(EventsOf(events', "cmd")) = 1
               ELSE /\ events' = << >>
                    /\ lastJogEncoderCLK' = LOW
                    /\ sinceJog' = sinceJog]_vars

\* the clock line has fallen exactly JogDebounce after the last jog command
C21Witness ==
    /\ pc = "jog"
    /\ currentPendantScreen = PSCREEN_JOG_HOMING
    /\ ClockFell
    /\ sinceJog = JogDebounce

\* the clock line has fallen since the rotation block read it last (on entry
\* of the FluidNC screen the block takes the present level first)
RotationClockFell == resyncedCLK = HIGH /\ encoderCLK = LOW

\* C22: on the FluidNC screen a fall of the clock line more than
\* RotationDebounce (300 ms) after the toggle before, whatever the data line
\* reads, flips the rotation, stores the new value once and repaints the
\* FluidNC screen once, all in the rotation step; a fall inside the window
\* changes nothing, and nothing else toggles, stores or restarts the window.
C22ToggleStoreRepaint ==
    [][/\ (pc = "rotation" /\ currentPendantScreen = PSCREEN_FLUIDNC
             /\ RotationClockFell)
            => IF sinceRotation > RotationDebounce
               THEN /\ pendantMachine'.rotation # pendantMachine.rotation
                    /\ EventsOf(events', "setRotation") =
                          << [ev |-> "setRotation",
                              rotation |-> pendantMachine'.rotation] >>
                    /\ EventsOf(events', "putInt") =
                          << [ev |-> "putInt",
                              rotation |-> pendantMachine'.rotation] >>
                    /\ nvs' = {pendantMachine'.rotation}
                    /\ EventsOf(events', "fullRepaint") =
                          << [ev |-> "fullRepaint", screen |-> PSCREEN_FLUIDNC] >>
                    /\ sinceRotation' = 0
                    /\ pc' = "sprites"
               ELSE /\ events' = << >>
                    /\ UNCHANGED << uiVars, nvs, sinceRotation >>
       /\ (EventsOf(events', "putInt") # << >> \/ nvs' # nvs)
            => /\ pc = "rotation"
               /\ currentPendantScreen = PSCREEN_FLUIDNC
               /\ RotationClockFell
               /\ sinceRotation > RotationDebounce]_vars

\* a tick with the data line LOW has turned the display back to Normal
C22Witness ==
    /\ pc = "sprites"
    /\ currentPendantScreen = PSCREEN_FLUIDNC
    /\ events # << >>
    /\ events[1] = [ev |-> "digitalRead", pin |-> "ENCODER_DT", level |-> LOW]
    /\ EventsOf(events, "putInt") = << [ev |-> "putInt", rotation |-> RotationNormal] >>
    /\ pendantMachine.rotation = RotationNormal
    /\ nvs = {RotationNormal}

UpdateRoutines ==
    { "updateMainMenuDisplay", "updateJogAxisDisplay", "updateWorkMachinePos",
      "updateWorkAreaPos", "updateFeedsSpeedsTopDisplay",
      "updateFeedOverrideDisplay", "updateSpindleOverrideDisplay",
      "updateSpindleRPMDisplay", "updateProbePositionDisplay",
      "updateProbeSettingsDisplay", "updateStatusCurrentFile",
      "updateStatusMachineStatus", "updateStatusAxisPositions",
      "updateStatusFeedSpindle" }

RoutinesOf(S) == {r \in UpdateRoutines : UpdateOwner(r) = S}

\* the number of cached regions the claim gives for each screen
RegionCount(S) ==
    CASE S \in {PSCREEN_MAIN_MENU, PSCREEN_JOG_HOMING, PSCREEN_SPINDLE_CONTROL} -> 1
      [] S \in {PSCREEN_PROBING_WORK, PSCREEN_PROBING} -> 2
      [] S = PSCREEN_FEEDS_SPEEDS -> 3
      [] S = PSCREEN_STATUS -> 4
      [] OTHER -> 0

\* the full repaint of S from the present state binds the sprites exactly when
\* they are not initialized for S
RebindsWhenNotBound(S, env) ==
    LET log == FirstRepaint(S, env).events
    IN  (EventsOf(log, "initSprites") # << >>)
           <=> (~spritesInitialized \/ spritesAllocatedFor # S)

\* the full repaint of S calls each update routine of S once, after the
\* sprites were bound, and each pushes its region
PopulatesRegionsOnce(S, env) ==
    LET log == FirstRepaint(S, env).events
    IN  /\ Cardinality(RoutinesOf(S)) = RegionCount(S)
        /\ Len(EventsOf(log, "update")) = RegionCount(S)
        /\ \A r \in RoutinesOf(S) :
              \E k \in 1..Len(log) :
                 /\ log[k].ev = "update"
                 /\ log[k].routine = r
                 /\ log[k].pushed
                 /\ log[k].buffer = S
                 /\ \A j \in 1..Len(log) :
                       log[j].ev \in {"initSprites", "createSprite"} => j < k

\* C23 (as the claim states it): with enough heap the full repaint of any
\* screen S binds the sprites to S iff they are not initialized for S, and
\* then calls each update routine of S once.
C23RebindsEveryScreen ==
    \A S \in PendantScreen, env \in EnoughHeap :
       /\ RebindsWhenNotBound(S, env)
       /\ PopulatesRegionsOnce(S, env)

\* C23: with enough heap the full repaint of a screen S that has cached
\* regions binds the sprites to S iff they are not initialized for S, leaves
\* them initialized for S, and then calls each update routine of S once, each
\* pushing its region (Main Menu 1, Jog & Homing 1, Work Area 2, Probing 2,
\* Feeds & Speeds 3, Spindle Control 1, Status 4); the full repaint of Macros,
\* SD Card or FluidNC leaves the sprites and their binding as they are and
\* calls no update routine.
C23RebindsCachedScreens ==
    \A S \in PendantScreen, env \in EnoughHeap :
       LET g == FirstRepaint(S, env)
       IN  IF S \in NoCacheScreens
           THEN /\ EventsOf(g.events, "initSprites") = << >>
                /\ EventsOf(g.events, "update") = << >>
                /\ g.sprites = sprites
                /\ g.spritesInitialized = spritesInitialized
                /\ g.spritesAllocatedFor = spritesAllocatedFor
           ELSE /\ RebindsWhenNotBound(S, env)
                /\ Len(EventsOf(g.events, "initSprites")) <= 1
                /\ g.spritesInitialized
                /\ g.spritesAllocatedFor = S
                /\ PopulatesRegionsOnce(S, env)

\* Feeds & Speeds has been entered: the sprites were bound once and its three
\* regions pushed
C23Witness ==
    /\ AcceptedTouch
    /\ currentPendantScreen = PSCREEN_FEEDS_SPEEDS
    /\ Len(InitCalls(events)) = 1
    /\ Len(Blits) = 3
    /\ spritesAllocatedFor = PSCREEN_FEEDS_SPEEDS

\* the step that follows each step of the program
StepAfter ==
    [ setup |-> "fnc_poll", fnc_poll |-> "button0", button0 |-> "button1",
      button1 |-> "button2", button2 |-> "jog", jog |-> "rotation",
      rotation |-> "sprites", sprites |-> "touch", touch |-> "fnc_poll" ]

\* C24: every pass of the loop serves the three buttons, the jog block, the
\* rotation block, the periodic refresh and the touch input, in this order,
\* each once; buttons delivered and a touch handled in one pass are handled
\* buttons first; the touch step handles at most one sample, and it alone
\* changes the screen, so that the buttons, the dial and the refresh of this
\* pass have worked on the screen as it was before the touch.
C24FixedOrder ==
    [][/\ pc' = StepAfter[pc]
       /\ (currentPendantScreen' # currentPendantScreen) => (pc = "touch")
       /\ (pc = "touch")
            => /\ Len(EventsOf(events', "touch")) <= 1
               /\ pressLog' = pressLog
               /\ \A k \in 1..Len(pressLog) :
                     pressLog[k].screen = currentPendantScreen
       /\ (pc = "sprites")
            => \A k \in 1..Len(events') :
                  events'[k].ev = "update"
                     => events'[k].screen = currentPendantScreen
       /\ (pc \in {"button0", "button1", "button2"} /\ pressLog' # pressLog)
            => /\ EventsOf(events', "fullRepaint") =
                     << [ev |-> "fullRepaint", screen |-> currentPendantScreen] >>
               /\ Len(pressLog') = Len(pressLog) + 1]_vars

\* in one pass the red and the green button were delivered on the Main Menu,
\* red first, and then a touch has gone to the Status screen
C24Witness ==
    /\ AcceptedTouch
    /\ Len(pressLog) = 2
    /\ pressLog[1] = [button |-> 0, line |-> << "!" >>,
                      screen |-> PSCREEN_MAIN_MENU]
    /\ pressLog[2].button = 2
    /\ currentPendantScreen = PSCREEN_STATUS
    /\ pendantMachine.status = "RUN"

\* the refresh step calls every update routine of the current screen once,
\* calls no other, and restarts the refresh interval
RefreshesCurrentScreen ==
    /\ \A k \in 1..Len(events') :
          /\ events'[k].ev = "update"
          /\ events'[k].routine \in RoutinesOf(currentPendantScreen)
          /\ events'[k].screen = currentPendantScreen
    /\ \A r \in RoutinesOf(currentPendantScreen) :
          \E k \in 1..Len(events') : events'[k].routine = r
    /\ Len(events') = Cardinality(RoutinesOf(currentPendantScreen))
    /\ sinceSpriteUpdate' = 0

\* C25: the periodic refresh fires when at least SpriteUpdateInterval (100 ms)
\* have passed since the refresh before, and then calls all update routines of
\* the current screen and none of another screen (none at all on a screen
\* without cached regions); before that it does nothing.
C25RefreshFromInterval ==
    [][(pc = "sprites")
         => IF sinceSpriteUpdate >= SpriteUpdateInterval
            THEN RefreshesCurrentScreen
            ELSE events' = << >> /\ sinceSpriteUpdate' = sinceSpriteUpdate]_vars

(***************************************************************************)
(* C26                                                                     *)
(***************************************************************************)
\* the scroll offsets the file list of the SD Card screen is examined at
MaxScrollOffset == 2

\* the point lies where the fifth file row overlaps Back or Next
InOverlap(x, y) ==
    /\ isTouchInBounds(x, y, 5, 40 + 4 * 44, 230, 40)
    /\ \/ isTouchInBounds(x, y, 5, 240, 112, 38)
       \/ isTouchInBounds(x, y, 123, 240, 112, 38)

\* the file list as it would be after `offset` scrolls
ScrolledTo(offset) == [Globals EXCEPT !.pendantSdCard.scrollOffset = offset,
                                      !.events = << >>]

\* the handler treats the point as the fifth file row and as nothing else:
\* it opens the file of that row or, the row being empty, changes nothing
ResolvedAsFileRow(g, x, y, env) ==
    LET displayIndex == 4 + g.pendantSdCard.scrollOffset
        h == handleSDCardTouch(g, x, y, env)
    IN  IF displayIndex < g.pendantSdCard.fileCount
        THEN /\ h.currentPendantScreen = PSCREEN_STATUS
             /\ h.pendantMachine.currentFile = files[displayIndex + 1]
             /\ h.pendantSdCard = g.pendantSdCard
        ELSE h = g

\* C26: an accepted point in the strip of the SD Card screen where the fifth
\* file row (y 216..256) overlaps the Back and Next buttons (y 240..278) is
\* resolved as the file row, the region checked first: the row being empty the
\* touch does nothing, and it never scrolls the list, neither at the offset
\* the list has nor at any offset 0..MaxScrollOffset it could be scrolled to.
C26FirstMatchWins ==
    [][(/\ pc = "touch"
        /\ currentPendantScreen = PSCREEN_SD_CARD
        /\ events' # << >>
        /\ events'[1].ev = "touch"
        /\ InOverlap(events'[1].x, events'[1].y))
           => /\ pendantSdCard' = pendantSdCard
              /\ \A k \in 1..Len(events') : events'[k].ev \notin {"delay", "paint"}
              /\ \A env \in Envs, offset \in 0..MaxScrollOffset :
                    ResolvedAsFileRow(ScrolledTo(offset), events'[1].x,
                                      events'[1].y, env)
              /\ (4 + pendantSdCard.scrollOffset >= pendantSdCard.fileCount)
                    => /\ currentPendantScreen' = PSCREEN_SD_CARD
                       /\ pendantMachine' = pendantMachine]_vars

\* an accepted touch in the overlap has just been handled on the SD Card screen
C26Witness ==
    /\ pc = "fnc_poll"
    /\ currentPendantScreen = PSCREEN_SD_CARD
    /\ events # << >>
    /\ events[1].ev = "touch"
    /\ InOverlap(events[1].x, events[1].y)

(***************************************************************************)
(* C27                                                                     *)
(***************************************************************************)
\* the point lies on a button of the screen that has a command: home axis i,
\* zero X, Y, Z, A and all, spindle start and stop, macro i
CommandRegion(screen, x, y) ==
    CASE screen = PSCREEN_JOG_HOMING ->
            \E i \in 0..3 : isTouchInBounds(x, y, 5 + i * 56, 173, 52, 38)
      [] screen = PSCREEN_PROBING_WORK ->
            \E i \in 0..4 : isTouchInBounds(x, y, 5 + i * 47, 230, 46, 38)
      [] screen = PSCREEN_SPINDLE_CONTROL ->
            \/ isTouchInBounds(x, y, 5, 230, 112, 40)
            \/ isTouchInBounds(x, y, 123, 230, 112, 40)
      [] screen = PSCREEN_MACROS ->
            \E i \in 0..9 : isTouchInBounds(x, y, 5 + (i % 2) * 118,
                                            40 + (i \div 2) * 48, 112, 43)
      [] OTHER -> FALSE

\* the step changes a selection: axis, increment, override, preset,
\* direction, coordinate system or probe type
SelectionChanges ==
    \/ pendantJog' # pendantJog
    \/ pendantFeeds' # pendantFeeds
    \/ pendantSpindle' # pendantSpindle
    \/ pendantProbing' # pendantProbing
    \/ pendantProbe' # pendantProbe

\* a press of button i is delivered in the step
PressDeliveredNow(i) == ~buttonHandled[i] /\ buttonHandled'[i]

\* a tick of the dial is accepted in the jog step
JogTickAccepted ==
    /\ currentPendantScreen = PSCREEN_JOG_HOMING
    /\ ClockFell
    /\ sinceJog > JogDebounce

\* C27: every action that has a command emits exactly one: an accepted touch
\* on home axis i, on a zero button, on spindle start or stop or on macro i,
\* every delivered button press and every accepted jog tick; any other
\* accepted touch, button pass or jog step emits none, so an accepted touch
\* emits at most one command, and a touch that changes the screen or a
\* selection emits none.
C27OneCommandPerAction ==
    [][/\ (pc = "touch" /\ events' # << >> /\ events'[1].ev = "touch")
            => /\ Len(EventsOf(events', "cmd")) =
                     IF CommandRegion(currentPendantScreen,
                                      events'[1].x, events'[1].y)
                     THEN 1 ELSE 0
               /\ (currentPendantScreen' # currentPendantScreen
                     \/ SelectionChanges)
                    => EventsOf(events', "cmd") = << >>
       /\ \A i \in 0..2 :
             (pc = buttonPc[i + 1])
                => Len(EventsOf(events', "cmd")) =
                      IF PressDeliveredNow(i) THEN 1 ELSE 0
       /\ (pc = "jog")
            => Len(EventsOf(events', "cmd")) =
                  IF JogTickAccepted THEN 1 ELSE 0
       /\ (pc \notin {"touch", "jog", "button0", "button1", "button2"})
            => EventsOf(events', "cmd") = << >>]_vars

\* a home command, emitted alone by an accepted touch
C27Witness ==
    /\ AcceptedTouch
    /\ Commands = << [ev |-> "cmd", line |-> << "$H", "Z" >>] >>

(***************************************************************************)
(* C28                                                                     *)
(***************************************************************************)
\* the pauses of a step
Pauses(log) == EventsOf(log, "delay")

\* every pause of the loop is the animation pause of an accepted touch, and
\* an accepted touch has at most one
OnePausePerTouch ==
    [][Pauses(events') # << >>
         => /\ pc = "touch"
            /\ events'[1].ev = "touch"
            /\ Pauses(events') = << [ev |-> "delay", ms |-> AnimationDelay] >>]_vars

\* C28: a depression of a button that was read LOW without a bounce from its
\* first reading to its release, for longer than the debounce delay (50 ms),
\* and during which an animation pause went by, has yielded its press event.
C28PauseKeepsPress ==
    \A i \in 0..2 :
       (/\ Finished(i)
        /\ lastPress[i].steady
        /\ lastPress[i].paused
        /\ lastPress[i].span > debounceDelay)
         => lastPress[i].delivered = 1

(***************************************************************************)
(* C29                                                                     *)
(***************************************************************************)
\* the clock line fell between the pass before and this pass of the loop,
\* while the Jog & Homing screen was current
FellOnJogScreen == fallScreen = PSCREEN_JOG_HOMING

\* C29: a jog command answers a fall of the clock line that happened while
\* the Jog & Homing screen was current; a level the line took while another
\* screen was current yields no jog command when the Jog & Homing screen is
\* entered or re-entered.
C29NoJogOnEntry ==
    [][JogCommands(events') # << >> => FellOnJogScreen]_vars

(***************************************************************************)
(* C30                                                                     *)
(***************************************************************************)
\* the rotation step finds the FluidNC screen entered since the pass before
EntersFluidNC ==
    /\ pc = "rotation"
    /\ currentPendantScreen = PSCREEN_FLUIDNC
    /\ lastScreen # PSCREEN_FLUIDNC

\* the step toggles the rotation
Toggled ==
    \/ EventsOf(events', "putInt") # << >>
    \/ (pc # "setup" /\ pendantMachine'.rotation # pendantMachine.rotation)

\* C30: the pass that finds the FluidNC screen entered takes the present
\* level of the clock line into its tick detector and toggles nothing,
\* whatever that level is; a toggle happens only in a rotation step on the
\* FluidNC screen whose pass before polled the dial on the FluidNC screen too
\* and read the clock line HIGH, while this pass reads it LOW.
C30ResyncOnEntry ==
    [][/\ EntersFluidNC
            => /\ events' = << >>
               /\ lastEncoderCLK' = encoderCLK
               /\ lastScreen' = PSCREEN_FLUIDNC
               /\ UNCHANGED << uiVars, nvs, sinceRotation >>
       /\ Toggled
            => /\ pc = "rotation"
               /\ currentPendantScreen = PSCREEN_FLUIDNC
               /\ lastScreen = PSCREEN_FLUIDNC
               /\ lastEncoderCLK = HIGH
               /\ encoderCLK = LOW]_vars

\* the FluidNC screen was entered by the touch of the pass before (one poll
\* of HalfTouchDebounce ago) with the clock line LOW and no toggle within
\* RotationDebounce; the rotation step has run and nothing was ever toggled
C30Witness ==
    /\ pc = "sprites"
    /\ currentPendantScreen = PSCREEN_FLUIDNC
    /\ sinceTouch = HalfTouchDebounce
    /\ encoderCLK = LOW
    /\ lastEncoderCLK = LOW
    /\ sinceRotation > RotationDebounce
    /\ events = << >>
    /\ nvs = {}
    /\ pendantMachine.rotation = RotationNormal

(***************************************************************************)
(* C31                                                                     *)
(***************************************************************************)
\* the RPM of the preset button that drawSpindleControlScreen highlights
HighlightedPresetRPM == presets[pendantSpindle.selectedPreset + 1]

\* C31: in every state, the initial one included, the spindle RPM that the
\* Spindle Control screen shows and that Start sends ("M3 S<rpm>") is the
\* entry of the preset table {6000, 12000, 24000} at the selected preset.
C31PresetDesignatesRPM ==
    /\ pendantSpindle.selectedPreset \in 0..(Len(presets) - 1)
    /\ pendantMachine.spindleRPM = HighlightedPresetRPM

(***************************************************************************)
(* C32                                                                     *)
(***************************************************************************)
\* the update routines of the last step that went past their guard and
\* rendered into their sprite and pushed it
Rendered ==
    SelectSeq(events, LAMBDA e : e.ev = "update" /\ e.pushed)

\* C32: an update routine renders into and pushes a sprite only when the
\* sprite holds a buffer, also when createSprite found no memory for one of
\* the sprites although the free heap was above the threshold.
C32RendersAllocatedOnly ==
    \A k \in 1..Len(Rendered) : Rendered[k].buffer # NoBuffer

(***************************************************************************)
(* C33                                                                     *)
(***************************************************************************)
\* C33: one touch that lasts at a fixed point, sampled on consecutive passes
\* of the loop without a release in between, causes at most one action and
\* at most one change of the screen.
C33OneActionPerHold ==
    /\ hold.actions <= 1
    /\ hold.transitions <= 1

(***************************************************************************)
(* C34                                                                     *)
(***************************************************************************)
Statuses == {"IDLE", "ALARM", "HOLD", "RUN"}

\* the status after a delivered press of button i
StatusAfterPress(i, status) ==
    CASE i = 0 -> "ALARM"
      [] i = 1 -> IF status = "ALARM" THEN "IDLE" ELSE "HOLD"
      [] i = 2 -> "RUN"

\* the command of a delivered press of button i
LineOfPress(i, status) ==
    CASE i = 0 -> << "!" >>
      [] i = 1 -> IF status = "ALARM" THEN << "$X" >> ELSE << "!" >>
      [] i = 2 -> << "~" >>

C34StatusInRange == pendantMachine.status \in Statuses

\* C34: the machine status is always one of IDLE, ALARM, HOLD, RUN and
\* changes only by a delivered press: red gives ALARM, green gives RUN from
\* any status, yellow gives IDLE from ALARM and HOLD otherwise; a delivered
\* press emits exactly one command (red "!", yellow "$X" in alarm and "!"
\* otherwise, green "~") and is followed by exactly one full repaint of the
\* current screen, which it does not change; a button pass without a
\* delivered press emits and repaints nothing.
C34StatusFromPresses ==
    /\ []C34StatusInRange
    /\ [][/\ \A i \in 0..2 :
               (pc = buttonPc[i + 1])
                  => IF PressDeliveredNow(i)
                     THEN /\ pendantMachine'.status =
                                StatusAfterPress(i, pendantMachine.status)
                          /\ EventsOf(events', "cmd") =
                                << [ev |-> "cmd",
                                    line |-> LineOfPress(i, pendantMachine.status)] >>
                          /\ EventsOf(events', "fullRepaint") =
                                << [ev |-> "fullRepaint",
                                    screen |-> currentPendantScreen] >>
                          /\ currentPendantScreen' = currentPendantScreen
                     ELSE /\ events' = << >>
                          /\ pendantMachine' = pendantMachine
          /\ (pc \notin {"button0", "button1", "button2"})
               => pendantMachine'.status = pendantMachine.status]_vars

\* a press of the green button, delivered in alarm on the Jog & Homing
\* screen, has set the status RUN
C34Witness ==
    /\ pc = "jog"
    /\ currentPendantScreen = PSCREEN_JOG_HOMING
    /\ EventsOf(events, "cmd") = << [ev |-> "cmd", line |-> << "~" >>] >>
    /\ pendantMachine.status = "RUN"
    /\ Len(pressLog) >= 2
    /\ pressLog[Len(pressLog) - 1].button = 0
    /\ pressLog[Len(pressLog)].button = 2

(***************************************************************************)
(* C35                                                                     *)
(***************************************************************************)
\* the accepted touch of the step lies on coordinate system button i of the
\* Probing Work screen
SelectsCoordSystem(i) ==
    /\ pc = "touch"
    /\ currentPendantScreen = PSCREEN_PROBING_WORK
    /\ events' # << >>
    /\ events'[1].ev = "touch"
    /\ isTouchInBounds(events'[1].x, events'[1].y, 5 + i * 56, 55, 52, 38)

\* the zero commands
ZeroLines ==
    { << "G10 L20 P1", a >> : a \in {"X0", "Y0", "Z0", "A0", "X0 Y0 Z0 A0"} }

\* C35: on the Probing Work screen every command of a zero button addresses
\* coordinate system P1, whichever of G54..G57 is selected; a touch on
\* coordinate system button i sets the selected index to i and its name to
\* the i-th of G54..G57, repaints the buttons and changes nothing else; the
\* active work coordinate system that is reported never changes.
C35ZeroAddressesP1 ==
    [][/\ (pc = "touch" /\ currentPendantScreen = PSCREEN_PROBING_WORK)
            => \A k \in 1..Len(events') :
                  events'[k].ev = "cmd" => events'[k].line \in ZeroLines
       /\ \A i \in 0..3 :
             SelectsCoordSystem(i)
                => /\ pendantProbing' =
                         [selectedCoordSystem |-> coords[i + 1],
                          selectedCoordIndex |-> i]
                   /\ EventsOf(events', "cmd") = << >>
                   /\ UNCHANGED << currentPendantScreen, previousPendantScreen,
                                   spritesInitialized, spritesAllocatedFor,
                                   sprites, pendantMachine, pendantJog,
                                   pendantSdCard, pendantSpindle, pendantFeeds,
                                   pendantProbe, nvs >>
       /\ (pc # "setup")
            => pendantMachine'.workCoordSystem = pendantMachine.workCoordSystem]_vars

\* zero all has emitted its command for P1 while G57 is selected and G54 is
\* reported active
C35Witness ==
    /\ AcceptedTouch
    /\ currentPendantScreen = PSCREEN_PROBING_WORK
    /\ Commands = << [ev |-> "cmd", line |-> << "G10 L20 P1", "X0 Y0 Z0 A0" >>] >>
    /\ pendantProbing.selectedCoordSystem = "G57"
    /\ pendantProbing.selectedCoordIndex = 3
    /\ pendantMachine.workCoordSystem = "G54"

(***************************************************************************)
(* C36                                                                     *)
(***************************************************************************)
FullRepaints(log) == Len(EventsOf(log, "fullRepaint"))

\* handlePendantTouch at the point, were the file list scrolled to `offset`:
\* one full repaint when the screen or the offset changes and none otherwise;
\* Back at offset 0 and Next at the end of the list do nothing at all
RepaintsIffChanged(offset, x, y, env) ==
    LET g == ScrolledTo(offset)
        h == handlePendantTouch(g, x, y, env)
        back == isTouchInBounds(x, y, 5, 240, 112, 38)
        next == isTouchInBounds(x, y, 123, 240, 112, 38)
        row == \E i \in 0..(VisibleFiles - 1) :
                  isTouchInBounds(x, y, 5, 40 + i * 44, 230, 40)
        atEnd == offset + VisibleFiles >= g.pendantSdCard.fileCount
    IN  /\ FullRepaints(h.events) =
              IF \/ h.currentPendantScreen # g.currentPendantScreen
                 \/ h.pendantSdCard.scrollOffset # offset
              THEN 1 ELSE 0
        /\ (~row /\ ((back /\ offset = 0) \/ (~back /\ next /\ atEnd)))
              => h = [g EXCEPT !.events = << [ev |-> "touch", x |-> x, y |-> y] >>]
        /\ (~row /\ back /\ offset > 0)
              => /\ h.pendantSdCard.scrollOffset = offset - 1
                 /\ FullRepaints(h.events) = 1

\* C36: a touch step makes a full repaint iff it changed the current screen
\* or the scroll offset of the SD Card screen, and then exactly one; a touch
\* in no region, on a command button or on a selection button makes none;
\* on the SD Card screen this holds at every scroll offset 0..MaxScrollOffset
\* the list could have, where Back at offset 0 and Next at the end of the
\* list change and repaint nothing.
C36RepaintIffScreenOrScroll ==
    [][(pc = "touch")
         => /\ FullRepaints(events') =
                  IF \/ currentPendantScreen' # currentPendantScreen
                     \/ pendantSdCard'.scrollOffset # pendantSdCard.scrollOffset
                  THEN 1 ELSE 0
            /\ (/\ currentPendantScreen = PSCREEN_SD_CARD
                /\ events' # << >>
                /\ events'[1].ev = "touch")
                 => \A env \in Envs, offset \in 0..MaxScrollOffset :
                       RepaintsIffChanged(offset, events'[1].x,
                                          events'[1].y, env)]_vars

\* on the SD Card screen an accepted touch on Back, below the fifth file
\* row, at scroll offset 0 has changed and repainted nothing
C36Witness ==
    /\ AcceptedTouch
    /\ currentPendantScreen = PSCREEN_SD_CARD
    /\ pendantSdCard.scrollOffset = 0
    /\ events = << [ev |-> "touch", x |-> ScrollBackPoint[1],
                    y |-> ScrollBackPoint[2]] >>

====
